---- MODULE Spec2Model ----
(***************************************************************************)
(* Contact histograms between a reference and a selection atom group       *)
(* (scripts/structure/contact_hist_deprecated.py): the per-frame function  *)
(* contact_hist and the trajectory loop of the script that merges the      *)
(* per-frame histograms into the accumulators hist_atm, hist_res and       *)
(* hist_par.                                                               *)
(*                                                                         *)
(* Autocorrelation function of a discretized trajectory                    *)
(* (scripts/discretization/state_lifetime_autocorr.py): the function       *)
(* autocorr_dtraj.  A discretized trajectory is the sequence of its        *)
(* frames, a frame the sequence of the state indices of the compounds.     *)
(*                                                                         *)
(* A group is the sequence of the residue ids (resids) of its atoms, in    *)
(* the order of the group.  A residue is identified by its resid (the      *)
(* groups expose a stable residue-id-to-index mapping), so n_residues is   *)
(* the number of distinct resids and resindices induce the same partition  *)
(* of the atoms as resids.  The neighbour query atoms_around_point is an   *)
(* input: near[k] is the set of positions (1-based, in sel) of the         *)
(* selection atoms within the cutoff of the k-th reference atom.           *)
(*                                                                         *)
(* numpy arrays are 0-based; a histogram is a sequence h whose bin n is    *)
(* h[n+1].  Index arguments of the operators below are 0-based as in the   *)
(* source.                                                                 *)
(***************************************************************************)
EXTENDS Integers, Sequences, FiniteSets, TLC

\* ------------------------------------------------------------------ bounds
MaxAtoms == 5
MaxExpected == 2
MaxFrames == 2
BigSelAtoms == 16
MaxCount == 2
MaxTrajFrames == 3
MaxRestart == 2
BigCompounds == 9

\* default of expected_max_contacts, initial length of the accumulators
DefaultMaxContacts == 16

\* the resid of the j-th residue of a group: labels, not contiguous indices
ResidOf(j) == 2 * j + 1

\* the groups of at most n atoms: the atoms of a residue are contiguous and
\* the resids increase along the group
Groups(n) ==
    UNION {{[i \in 1..m |-> ResidOf(g[i])] :
               g \in {f \in [1..m -> 1..m] :
                         /\ m > 0 => f[1] = 1
                         /\ \A i \in 1..(m - 1) : f[i + 1] - f[i] \in {0, 1}}} :
           m \in 0..n}

\* --------------------------------------------------------------- variables
VARIABLES
    ref, sel, cutoff, expected_max_contacts,  \* arguments of contact_hist
    debug,                  \* argument debug of contact_hist, --debug
    near,                   \* results of the neighbour queries of the call
    pc,                     \* position in the script / in contact_hist
    error,                  \* <<>>, or the exception raised: its type and
                            \* the source line of the check that raised it
    warnings,               \* source lines of the warnings issued
    caller,                 \* "direct": contact_hist called on its own;
                            \* "script": called by the trajectory loop;
                            \* "check": the debug checks on their own
    refatm_selatm, refatm_diff_selres, refatm_same_selres,
    refres_diff_selatm, refres_same_selatm, refres_selatm_tot,
    refres_diff_selres, refres_same_selres,
    refatm_selres_pair, refres_selatm_pair, refres_selres_pair,
    selatm_unused, selres_unused,
    ret,                    \* the returned tuple of eleven histograms
    UPDATING_REF, UPDATING_SEL, N_FRAMES,     \* script arguments
    frame,                  \* number of frames read
    hist_atm, hist_res, hist_par,             \* trajectory accumulators
    n_refatm, n_refres, n_selatm, n_selres, n_pairs,
    dtraj, restart, cut, cut_and_merge,       \* arguments of autocorr_dtraj
    autocorr,               \* the array returned by autocorr_dtraj
    norm                    \* its local array norm at the return

args == <<ref, sel, cutoff, expected_max_contacts, debug>>
atmhists == <<refatm_selatm, refatm_diff_selres, refatm_same_selres,
              refatm_selres_pair>>
reshists == <<refres_diff_selatm, refres_selatm_tot, refres_diff_selres,
              refres_selatm_pair, refres_selres_pair>>
samehists == <<refres_same_selatm, refres_same_selres>>
masks == <<selatm_unused, selres_unused>>
locals == <<atmhists, reshists, samehists, masks>>
flags == <<UPDATING_REF, UPDATING_SEL, N_FRAMES>>
accs == <<hist_atm, hist_res, hist_par>>
totals == <<n_refatm, n_refres, n_selatm, n_selres>>
script == <<flags, frame, accs, totals, n_pairs>>
acf == <<dtraj, restart, cut, cut_and_merge, autocorr, norm>>
vars == <<args, near, pc, error, warnings, caller, locals, ret, script, acf>>

\* ----------------------------------------------------------------- helpers
Max(a, b) == IF a >= b THEN a ELSE b

Range(s) == {s[i] : i \in DOMAIN s}

Zeros(n) == [i \in 1..n |-> 0]

RECURSIVE SumTo(_, _)
SumTo(s, n) == IF n = 0 THEN 0 ELSE s[n] + SumTo(s, n - 1)

\* np.sum of a 1-d array
Sum(s) == SumTo(s, Len(s))

\* np.max of a non-empty 1-d array
SeqMax(s) == CHOOSE m \in Range(s) : \A i \in DOMAIN s : s[i] <= m

\* np.max of a non-empty 2-d array
MatMax(m) == CHOOSE v \in UNION {Range(m[r]) : r \in DOMAIN m} :
                 \A r \in DOMAIN m : \A c \in DOMAIN m[r] : m[r][c] <= v

\* the elements of a finite set of positive integers in increasing order
SortSet(S) ==
    IF S = {} THEN <<>>
    ELSE LET hi == CHOOSE x \in S : \A y \in S : y <= x
         IN SelectSeq([i \in 1..hi |-> i], LAMBDA x : x \in S)

\* np.unique(a): the sorted distinct values
unique(a) == SortSet(Range(a))

\* np.searchsorted(a, v): 0-based insertion index (side='left')
searchsorted(a, v) == Cardinality({i \in DOMAIN a : a[i] < v})

\* mdt.nph.extend(a, length): right-pad with zeros up to the given length
extend(a, length) == IF Len(a) >= length THEN a
                     ELSE a \o Zeros(length - Len(a))

\* faulty variant of IncAt: a[i] = v
IncAt_assign(a, i, v) == [a EXCEPT ![i + 1] = v]

\* a[i] += v
IncAt(a, i, v) == [a EXCEPT ![i + 1] = @ + v]

\* faulty variant of increment: the histogram is extended to n bins only
increment_short(hist, n) ==
    LET h == extend(hist, n)
    IN IF (n + 1) \in DOMAIN h THEN IncAt(h, n, 1) ELSE h

\* hist = extend(hist, n + 1); hist[n] += 1
increment(hist, n) == IncAt(extend(hist, n + 1), n, 1)

\* faulty variant of FancyInc: every occurrence of an index adds
FancyInc_each(a, idx) ==
    [n \in DOMAIN a |->
        a[n] + Cardinality({i \in DOMAIN idx : idx[i] = n - 1})]

\* a[idx] += 1 with an index array: buffered, a repeated index adds once
FancyInc(a, idx) == [n \in DOMAIN a |->
                        IF (n - 1) \in Range(idx) THEN a[n] + 1 ELSE a[n]]

\* np.add.at(a, idx, vals): unbuffered, every occurrence of an index adds
RECURSIVE AddAtTo(_, _, _, _)
AddAtTo(a, idx, vals, n) ==
    IF n = 0 THEN a
    ELSE IncAt(AddAtTo(a, idx, vals, n - 1), idx[n], vals[n])

\* faulty variant of AddAt: a[idx] += vals, buffered, the last occurrence of
\* a repeated index wins
AddAt_buffered(a, idx, vals) ==
    [n \in DOMAIN a |->
        IF (n - 1) \in Range(idx)
        THEN LET last == CHOOSE i \in DOMAIN idx :
                             /\ idx[i] = n - 1
                             /\ \A j \in DOMAIN idx : idx[j] = n - 1 => j <= i
             IN a[n] + vals[last]
        ELSE a[n]]

AddAt(a, idx, vals) == AddAtTo(a, idx, vals, Len(idx))

Ones(idx) == [i \in DOMAIN idx |-> 1]

\* faulty variant of bincount: the values are counted from 1
bincount_from1(a) == [n \in 1..(SeqMax(a) + 1) |->
                         Cardinality({i \in DOMAIN a : a[i] = n})]

\* np.bincount(a) of a non-empty array of non-negative integers
bincount(a) == [n \in 1..(SeqMax(a) + 1) |->
                   Cardinality({i \in DOMAIN a : a[i] = n - 1})]

\* m.flat of a 2-d array, row after row
RECURSIVE FlatTo(_, _)
FlatTo(m, r) == IF r = 0 THEN <<>> ELSE FlatTo(m, r - 1) \o m[r]

flat(m) == FlatTo(m, Len(m))

\* ag.n_atoms, ag.n_residues
n_atoms(ag) == Len(ag)
n_residues(ag) == Cardinality(Range(ag))

\* --------------------------------------------------- the reference-atom loop
\* np.unique(sel_near_ref.resids, return_counts=True)[0]
near_selresids(sel_near_ref) == SortSet({sel[a] : a \in sel_near_ref})

\* faulty variant of near_selresids_counts: every residue counted once
near_selresids_ones(sel_near_ref) ==
    [i \in DOMAIN near_selresids(sel_near_ref) |-> 1]

\* np.unique(sel_near_ref.resids, return_counts=True)[1]
near_selresids_counts(sel_near_ref) ==
    LET ids == near_selresids(sel_near_ref)
    IN [i \in DOMAIN ids |->
           Cardinality({a \in sel_near_ref : sel[a] = ids[i]})]

\* faulty variant of selresids_indices: positions in selresids itself
selresids_positions(sel_near_ref) ==
    [i \in DOMAIN near_selresids(sel_near_ref) |-> i - 1]

\* np.intersect1d(unique_selresids, selresids, ..., return_indices=True)[1]
selresids_indices(sel_near_ref) ==
    LET ids == near_selresids(sel_near_ref)
        unique_selresids == unique(sel)
    IN [i \in DOMAIN ids |-> searchsorted(unique_selresids, ids[i])]

\* np.intersect1d(sel.ids, sel_near_ref.ids, ..., return_indices=True)[1]
selatmids_indices(sel_near_ref) == {a - 1 : a \in sel_near_ref}

\* faulty variant of refresid_of: every atom in the first residue
refresid_first(refatm) == 0

\* np.searchsorted(unique_refresids, refatm.resid)
refresid_of(refatm) == searchsorted(unique(ref), ref[refatm])

\* faulty variant of ClearMask: the mask is left as it is
ClearMask_none(mask, refresid, idxset) == mask

\* mask[refresid][idx] = False
ClearMask(mask, refresid, idxset) ==
    [mask EXCEPT ![refresid + 1] =
        [c \in DOMAIN @ |-> IF (c - 1) \in idxset THEN FALSE ELSE @[c]]]

\* faulty variant of CountUnused: the mask is not consulted
CountAll(mask, refresid, idxset) ==
    Cardinality({c \in DOMAIN mask[refresid + 1] : (c - 1) \in idxset})

\* np.count_nonzero(mask[refresid][idx])
CountUnused(mask, refresid, idxset) ==
    Cardinality({c \in DOMAIN mask[refresid + 1] :
                    (c - 1) \in idxset /\ mask[refresid + 1][c]})

\* faulty variant of IncRow: matrix[refresid][idx] = 1
IncRow_set(matrix, refresid, idxset) ==
    [matrix EXCEPT ![refresid + 1] =
        [c \in DOMAIN @ |-> IF (c - 1) \in idxset THEN 1 ELSE @[c]]]

\* matrix[refresid][idx] += 1 for an index array without repetitions
IncRow(matrix, refresid, idxset) ==
    [matrix EXCEPT ![refresid + 1] =
        [c \in DOMAIN @ |-> IF (c - 1) \in idxset THEN @[c] + 1 ELSE @[c]]]

\* ------------------------------------------ reference-residue 'same' histograms
\* faulty variant of RowsWithAny: a sum over the partners, not an 'any'
EntriesEqual(m, n) ==
    Cardinality({p \in (DOMAIN m) \X (DOMAIN m[1]) : m[p[1]][p[2]] = n})

\* number of rows of m with at least one entry equal to n
RowsWithAny(m, n) ==
    Cardinality({r \in DOMAIN m : \E c \in DOMAIN m[r] : m[r][c] = n})

\* faulty variant of RowsNonzero: rows with a single bond to a partner
RowsWithOne(m) ==
    Cardinality({r \in DOMAIN m : \E c \in DOMAIN m[r] : m[r][c] = 1})

\* number of rows of m with at least one non-zero entry
RowsNonzero(m) ==
    Cardinality({r \in DOMAIN m : \E c \in DOMAIN m[r] : m[r][c] # 0})

same_hist(m, nrefres) ==
    [n \in 1..(MatMax(m) + 1) |->
        IF n = 1 THEN nrefres - RowsNonzero(m) ELSE RowsWithAny(m, n - 1)]

\* faulty variant of pair_hist: the first element is kept
pair_hist_raw(m) == bincount(flat(m))

\* bincount of the flattened matrix with the first element set to zero
pair_hist(m) == [bincount(flat(m)) EXCEPT ![1] = 0]

\* faulty variant of unify: the histograms keep their lengths
unify_none(hists) == hists

\* right-pad every histogram of the tuple to the length of the longest
unify(hists) ==
    LET length == SeqMax([i \in DOMAIN hists |-> Len(hists[i])])
    IN [i \in DOMAIN hists |-> extend(hists[i], length)]

\* effective initial histogram length
InitialLength(emc) == IF emc <= 0 THEN DefaultMaxContacts ELSE emc

\* ------------------------------------------------------- the debug checks
\* the source line of the first check that raises, 0 if none does: checks is
\* a sequence of pairs <<condition for raising, line>>
FirstRaise(checks) ==
    IF \E i \in DOMAIN checks : checks[i][1]
    THEN checks[CHOOSE i \in DOMAIN checks :
                    /\ checks[i][1]
                    /\ \A j \in 1..(i - 1) : ~checks[j][1]][2]
    ELSE 0

\* np.any(a > n)
AnyGreater(a, n) == \E i \in DOMAIN a : a[i] > n

\* faulty variant of invariant_checks: the checks on refres_selatm_tot and
\* on the first element of refres_selatm_pair are missing
invariant_checks_fewer(h, natoms, nresidues) ==
    FirstRaise(<<
        <<Sum(h[1]) # natoms, 580>>,
        <<Sum(h[2]) # natoms, 585>>,
        <<Sum(h[3]) < natoms, 591>>,
        <<AnyGreater(h[3], natoms), 596>>,
        <<Sum(h[4]) # nresidues, 601>>,
        <<Sum(h[5]) < nresidues, 607>>,
        <<AnyGreater(h[5], nresidues), 613>>,
        <<Sum(h[7]) # nresidues, 624>>,
        <<Sum(h[8]) < nresidues, 630>>,
        <<AnyGreater(h[8], nresidues), 636>>,
        <<h[2][1] # h[1][1], 642>>,
        <<h[3][1] # h[1][1], 649>>,
        <<h[5][1] # h[4][1], 656>>,
        <<h[6][1] # h[4][1], 663>>,
        <<h[7][1] # h[4][1], 670>>,
        <<h[8][1] # h[4][1], 677>>,
        <<h[9][1] # 0, 684>>,
        <<h[11][1] # 0, 692>> >>)

\* the checks of the sums, of the first elements and of the first elements
\* of the pair histograms; h is the tuple of the eleven histograms
invariant_checks(h, natoms, nresidues) ==
    FirstRaise(<<
        <<Sum(h[1]) # natoms, 580>>,
        <<Sum(h[2]) # natoms, 585>>,
        <<Sum(h[3]) < natoms, 591>>,
        <<AnyGreater(h[3], natoms), 596>>,
        <<Sum(h[4]) # nresidues, 601>>,
        <<Sum(h[5]) < nresidues, 607>>,
        <<AnyGreater(h[5], nresidues), 613>>,
        <<Sum(h[6]) # nresidues, 618>>,
        <<Sum(h[7]) # nresidues, 624>>,
        <<Sum(h[8]) < nresidues, 630>>,
        <<AnyGreater(h[8], nresidues), 636>>,
        <<h[2][1] # h[1][1], 642>>,
        <<h[3][1] # h[1][1], 649>>,
        <<h[5][1] # h[4][1], 656>>,
        <<h[6][1] # h[4][1], 663>>,
        <<h[7][1] # h[4][1], 670>>,
        <<h[8][1] # h[4][1], 677>>,
        <<h[9][1] # 0, 684>>,
        <<h[10][1] # 0, 688>>,
        <<h[11][1] # 0, 692>> >>)

\* np.sum(hist * np.arange(len(hist)))
RECURSIVE MomentTo(_, _)
MomentTo(hist, n) ==
    IF n = 0 THEN 0 ELSE (n - 1) * hist[n] + MomentTo(hist, n - 1)

first_moment(hist) == MomentTo(hist, Len(hist))

\* np.all(natms_per_res == 1) for np.unique(ag.resindices,
\* return_counts=True): true for an empty group as well
all_singletons(ag) == n_atoms(ag) = n_residues(ag)

\* np.any(same[:2] != np.array([x, natoms - x])): a histogram with a single
\* element is broadcast against the two expected values
same_differs(same, x, natoms) ==
    IF Len(same) >= 2 THEN same[1] # x \/ same[2] # natoms - x
    ELSE same[1] # x \/ same[1] # natoms - x

\* np.any(np.delete(pair, 1) != 0) for a histogram of two or more elements
rest_nonzero(pair) == \E i \in DOMAIN pair : i # 2 /\ pair[i] # 0

\* np.any(a != b) for arrays of the same length
differs(a, b) == \E i \in DOMAIN a : a[i] # b[i]

\* the checks of a group of residues of one atom each: atm, same and pair
\* are the atom-level histogram, the 'same' histogram and the pair histogram
\* checked against [x, natoms - x] and [0, y]; np.delete and pair[1] raise
\* an IndexError for a histogram with a single element
singleton_checks(before, same, pair, after, h, natoms, lines) ==
    LET first == FirstRaise(before \o <<
                     <<same_differs(same, h[1][1], natoms), lines[1]>>,
                     <<Sum(same) # natoms, lines[2]>> >> \o after[1])
    IN IF first # 0 THEN <<"ValueError", first>>
       ELSE IF Len(pair) < 2 THEN <<"IndexError", lines[3]>>
       ELSE IF rest_nonzero(pair) THEN <<"ValueError", lines[3]>>
       ELSE IF pair[2] # first_moment(h[1]) THEN <<"ValueError", lines[4]>>
       ELSE IF after[2][1] THEN <<"ValueError", after[2][2]>>
       ELSE <<>>

\* if every reference residue has one atom
singleton_ref_checks(h, natoms) ==
    singleton_checks(<< <<differs(h[4], h[1]), 716>>,
                        <<differs(h[6], h[1]), 720>> >>,
                     h[5], h[10],
                     << << <<differs(h[7], h[2]), 737>>,
                           <<differs(h[8], h[3]), 741>> >>,
                        <<differs(h[11], h[9]), 751>> >>,
                     h, natoms, <<724, 730, 745, 748>>)

\* if every selection residue has one atom
singleton_sel_checks(h, natoms) ==
    singleton_checks(<< <<differs(h[2], h[1]), 773>> >>,
                     h[3], h[9],
                     << << <<differs(h[7], h[4]), 790>>,
                           <<differs(h[8], h[5]), 794>> >>,
                        <<differs(h[11], h[10]), 804>> >>,
                     h, natoms, <<777, 783, 798, 801>>)

\* the histograms have not the same shape
shape_check(h) ==
    IF \E i \in DOMAIN h : Len(h[i]) # Len(h[1])
    THEN <<"ValueError", 809>> ELSE <<>>

\* the block 'if debug:' of contact_hist: the exception it raises, <<>> if
\* it raises none
debug_check(h, r, s) ==
    LET inv == invariant_checks(h, n_atoms(r), n_residues(r))
        sref == IF all_singletons(r)
                THEN singleton_ref_checks(h, n_atoms(r)) ELSE <<>>
        ssel == IF all_singletons(s)
                THEN singleton_sel_checks(h, n_atoms(r)) ELSE <<>>
    IN IF inv # 0 THEN <<"ValueError", inv>>
       ELSE IF sref # <<>> THEN sref
       ELSE IF ssel # <<>> THEN ssel
       ELSE shape_check(h)

\* ------------------------------------------- normalisation, final checks
\* The normalised histograms and the averages are floating-point numbers.
\* They are modelled exactly, as fractions <<numerator, denominator>> of
\* integers with a non-negative denominator: <<0, 0>> is nan (0 / 0) and
\* <<n, 0>> with n > 0 is inf.  A normalised histogram is kept as its
\* counts together with its divisor.

\* tol = 1e-4, as 1 / TolInverse
TolInverse == 10000

Abs(x) == IF x < 0 THEN -x ELSE x
Sign(x) == IF x < 0 THEN -1 ELSE IF x > 0 THEN 1 ELSE 0

is_nan(x) == x[2] = 0 /\ x[1] = 0
is_inf(x) == x[2] = 0 /\ x[1] # 0

\* the numbers 1 and 0
One == <<1, 1>>
Nought == <<0, 1>>

\* x * y
mul(x, y) == <<x[1] * y[1], x[2] * y[2]>>

\* 1 - x
complement(x) ==
    IF x[2] = 0 THEN <<-x[1], 0>> ELSE <<x[2] - x[1], x[2]>>

\* x / y: a division by zero gives inf or nan and a warning, no exception
div(x, y) ==
    IF is_nan(x) \/ is_nan(y) THEN <<0, 0>>
    ELSE <<Sign(y[1]) * x[1] * y[2], x[2] * Abs(y[1])>>

\* x != y
not_equal(x, y) ==
    IF is_nan(x) \/ is_nan(y) THEN TRUE
    ELSE IF is_inf(x) \/ is_inf(y)
    THEN ~(is_inf(x) /\ is_inf(y) /\ Sign(x[1]) = Sign(y[1]))
    ELSE x[1] * y[2] # y[1] * x[2]

\* np.isclose(x, y, rtol=0, atol=tol)
isclose(x, y) ==
    IF is_nan(x) \/ is_nan(y) THEN FALSE
    ELSE IF is_inf(x) \/ is_inf(y)
    THEN is_inf(x) /\ is_inf(y) /\ Sign(x[1]) = Sign(y[1])
    ELSE Abs(x[1] * y[2] - y[1] * x[2]) * TolInverse <= x[2] * y[2]

\* x < 1, x > 1
less_than_one(x) == x[2] > 0 /\ x[1] < x[2]
greater_than_one(x) == IF x[2] = 0 THEN x[1] > 0 ELSE x[1] > x[2]

\* element n (0-based) of the histogram hist / d
elem(hist, d, n) == <<hist[n + 1], d>>

\* np.sum(hist / d)
fsum(hist, d) ==
    IF d = 0 /\ (\E i \in DOMAIN hist : hist[i] = 0) THEN <<0, 0>>
    ELSE <<Sum(hist), d>>

\* np.sum(hist / d * np.arange(len(hist)))
fmoment(hist, d) == IF d = 0 THEN <<0, 0>> ELSE <<first_moment(hist), d>>

\* np.any(hist / d > 1)
any_greater_than_one(hist, d) ==
    \E i \in DOMAIN hist : greater_than_one(<<hist[i], d>>)

\* np.any(hist / d) > 1: the truth value of np.any is compared with 1
any_exceeds_one(hist, d) ==
    (IF \E i \in DOMAIN hist : ~(d # 0 /\ hist[i] = 0) THEN 1 ELSE 0) > 1

\* np.allclose(a / da, b / db, rtol=0, atol=tol, equal_nan=...)
allclose(a, da, b, db, equal_nan) ==
    \A i \in DOMAIN a :
        \/ isclose(<<a[i], da>>, <<b[i], db>>)
        \/ equal_nan /\ is_nan(<<a[i], da>>) /\ is_nan(<<b[i], db>>)

\* np.allclose(same[:2], np.array([x, 1 - x]), rtol=0, atol=tol) with
\* x = atm[0] / datm
same_is_x_rest(same, dsame, atm, datm) ==
    LET x == elem(atm, datm, 0)
    IN /\ isclose(elem(same, dsame, 0), x)
       /\ isclose(elem(same, dsame, 1), complement(x))

\* np.any(a / da != b / db)
any_not_equal(a, da, b, db) ==
    \E i \in DOMAIN a : not_equal(<<a[i], da>>, <<b[i], db>>)

\* faulty variant of final_total: the number of frames times the size of
\* the group, also for an updating group
final_total_static(updating, total, count, nframes) == count * nframes

\* the divisor of the normalisation: the total summed up over the frames
\* for an updating group, else the size of the group times N_FRAMES
final_total(updating, total, count, nframes) ==
    IF updating THEN total ELSE count * nframes

\* the averages; i is the 0-based row of the accumulator
av_atm(i) == fmoment(hist_atm[i + 1], n_refatm)
av_atm_bound(i) ==
    div(av_atm(i), complement(elem(hist_atm[i + 1], n_refatm, 0)))
av_res(i) == fmoment(hist_res[i + 1], n_refres)
av_res_bound(i) ==
    div(av_res(i), complement(elem(hist_res[i + 1], n_refres, 0)))
av_par_bound(i) == fmoment(hist_par[i + 1], n_pairs[i + 1])
av_par(i) ==
    mul(av_par_bound(i),
        complement(IF i = 0 THEN elem(hist_atm[1], n_refatm, 0)
                   ELSE elem(hist_res[1], n_refres, 0)))

\* 'Checking output for consistency': the source line of the first check
\* that raises, 0 if none does
final_check ==
    LET refsingle == /\ n_residues(ref) > 0 /\ ~UPDATING_REF
                     /\ all_singletons(ref)
        selsingle == /\ n_residues(sel) > 0 /\ ~UPDATING_SEL
                     /\ all_singletons(sel)
        atm(i) == hist_atm[i + 1]
        res(i) == hist_res[i + 1]
        par(i) == hist_par[i + 1]
        dpar(i) == n_pairs[i + 1]
    IN FirstRaise(<<
        <<\E i \in {0, 1} : ~isclose(fsum(atm(i), n_refatm), One), 1255>>,
        <<less_than_one(fsum(atm(2), n_refatm)), 1259>>,
        <<any_greater_than_one(atm(2), n_refatm), 1262>>,
        <<\E i \in {0, 2, 3} : ~isclose(fsum(res(i), n_refres), One), 1266>>,
        <<less_than_one(fsum(res(1), n_refres)), 1270>>,
        <<any_exceeds_one(res(1), n_refres), 1273>>,
        <<less_than_one(fsum(res(4), n_refres)), 1270>>,
        <<any_exceeds_one(res(4), n_refres), 1273>>,
        <<\E i \in 0..2 : ~isclose(fsum(par(i), dpar(i)), One), 1277>>,
        <<\E i \in 1..2 : not_equal(elem(atm(i), n_refatm, 0),
                                    elem(atm(0), n_refatm, 0)), 1282>>,
        <<\E i \in 1..4 : not_equal(elem(res(i), n_refres, 0),
                                    elem(res(0), n_refres, 0)), 1289>>,
        <<\E i \in 1..2 : not_equal(elem(par(i), dpar(i), 0), Nought), 1296>>,
        <<refsingle /\ ~allclose(res(0), n_refres, atm(0), n_refatm, TRUE),
          1306>>,
        <<refsingle /\ ~allclose(res(2), n_refres, atm(0), n_refatm, TRUE),
          1311>>,
        <<refsingle /\ ~same_is_x_rest(res(1), n_refres, atm(0), n_refatm),
          1316>>,
        <<refsingle /\ ~isclose(fsum(res(1), n_refres), One), 1322>>,
        <<refsingle /\ ~allclose(res(3), n_refres, atm(1), n_refatm, TRUE),
          1326>>,
        <<refsingle /\ ~allclose(res(4), n_refres, atm(2), n_refatm, TRUE),
          1331>>,
        <<refsingle /\ ~isclose(elem(par(1), dpar(1), 1), One), 1336>>,
        <<refsingle /\ ~isclose(fsum(par(1), dpar(1)), One), 1339>>,
        <<refsingle /\ ~allclose(par(2), dpar(2), par(0), dpar(0), TRUE),
          1343>>,
        <<selsingle /\ any_not_equal(atm(1), n_refatm, atm(0), n_refatm),
          1354>>,
        <<selsingle /\ ~same_is_x_rest(atm(2), n_refatm, atm(0), n_refatm),
          1358>>,
        <<selsingle /\ ~isclose(fsum(atm(2), n_refatm), One), 1365>>,
        <<selsingle /\ any_not_equal(res(3), n_refres, res(0), n_refres),
          1369>>,
        <<selsingle /\ any_not_equal(res(4), n_refres, res(1), n_refres),
          1373>>,
        <<selsingle /\ ~isclose(elem(par(0), dpar(0), 1), One), 1377>>,
        <<selsingle /\ ~isclose(fsum(par(0), dpar(0)), One), 1380>>,
        <<selsingle /\ any_not_equal(par(2), dpar(2), par(1), dpar(1)),
          1384>>,
        <<~isclose(mul(av_atm(1), av_par_bound(0)), av_atm(0)), 1389>>,
        <<~isclose(mul(av_atm_bound(1), av_par_bound(0)), av_atm_bound(0)),
          1397>>,
        <<~isclose(mul(av_res(0), av_par_bound(1)), av_res(2)), 1407>>,
        <<~isclose(mul(av_res_bound(0), av_par_bound(1)), av_res_bound(2)),
          1415>>,
        <<~isclose(mul(av_res(3), av_par_bound(2)), av_res(2)), 1425>>,
        <<~isclose(mul(av_res_bound(3), av_par_bound(2)), av_res_bound(2)),
          1433>> >>)

\* -------------------------------------------------------- trajectory merge
\* mdt.nph.match_shape(a, b): both 2-d arrays right-padded with zeros to the
\* longer of the two row lengths
match_shape(a, b) ==
    LET length == Max(Len(a[1]), Len(b[1]))
    IN <<[r \in DOMAIN a |-> extend(a[r], length)],
         [r \in DOMAIN b |-> extend(b[r], length)]>>

\* a += b for 2-d arrays of the same shape
MatAdd(a, b) == [r \in DOMAIN a |-> [c \in DOMAIN a[r] |-> a[r][c] + b[r][c]]]

\* hist_tmp[lo:hi] of the 11-row array hist_tmp, lo 0-based, hi exclusive
Rows(hist_tmp, lo, hi) == [r \in 1..(hi - lo) |-> hist_tmp[lo + r]]

\* faulty variant of merge: the frame is cut to the accumulator's length
merge_truncate(a, b) ==
    [r \in DOMAIN a |->
        [c \in DOMAIN a[r] |->
            a[r][c] + (IF c \in DOMAIN b[r] THEN b[r][c] ELSE 0)]]

\* a, tmp = match_shape(a, b); a += tmp
merge(a, b) == LET m == match_shape(a, b) IN MatAdd(m[1], m[2])

\* ------------------------------------------------------------------- Init
NoLocals ==
    /\ refatm_selatm = <<>> /\ refatm_diff_selres = <<>>
    /\ refatm_same_selres = <<>> /\ refres_diff_selatm = <<>>
    /\ refres_same_selatm = <<>> /\ refres_selatm_tot = <<>>
    /\ refres_diff_selres = <<>> /\ refres_same_selres = <<>>
    /\ refatm_selres_pair = <<>> /\ refres_selatm_pair = <<>>
    /\ refres_selres_pair = <<>>
    /\ selatm_unused = <<>> /\ selres_unused = <<>>
    /\ near = <<>>
    /\ ret = <<>>
    /\ error = <<>>
    /\ warnings = {}

\* autocorr_dtraj is not called
NoAutocorr ==
    /\ dtraj = <<>> /\ restart = 1
    /\ cut = FALSE /\ cut_and_merge = FALSE
    /\ autocorr = <<>> /\ norm = <<>>

NewAccumulators ==
    /\ hist_atm = [r \in 1..3 |-> Zeros(DefaultMaxContacts)]
    /\ hist_res = [r \in 1..5 |-> Zeros(DefaultMaxContacts)]
    /\ hist_par = [r \in 1..3 |-> Zeros(DefaultMaxContacts)]
    /\ n_refatm = 0 /\ n_refres = 0 /\ n_selatm = 0 /\ n_selres = 0
    /\ n_pairs = Zeros(3)
    /\ frame = 0

\* one call of contact_hist with arbitrary arguments: the two groups have at
\* most MaxAtoms atoms together
InitCall ==
    /\ NoAutocorr
    /\ caller = "direct"
    /\ ref \in Groups(MaxAtoms)
    /\ sel \in Groups(MaxAtoms - Len(ref))
    /\ cutoff \in {0, 1}
    /\ expected_max_contacts \in 0..MaxExpected
    /\ debug \in BOOLEAN
    /\ pc = "call"
    /\ NoLocals
    /\ UPDATING_REF = FALSE /\ UPDATING_SEL = FALSE /\ N_FRAMES = 0
    /\ NewAccumulators

\* the groups the script is run on: small reference groups, and selection
\* groups that are empty, a single atom, or BigSelAtoms atoms in one residue
\* or in residues of one atom each
ScriptRefs == Groups(2)
ScriptSels == {<<>>, <<ResidOf(1)>>,
               [i \in 1..BigSelAtoms |-> ResidOf(1)],
               [i \in 1..BigSelAtoms |-> ResidOf(i)]}

\* the script with its arguments parsed and the groups selected: a group
\* that is not updating is selected once; an updating group is re-evaluated
\* with every frame
InitScript ==
    /\ NoAutocorr
    /\ caller = "script"
    /\ UPDATING_REF \in BOOLEAN
    /\ UPDATING_SEL \in BOOLEAN
    /\ ref \in IF UPDATING_REF THEN {<<>>} ELSE ScriptRefs
    /\ sel \in IF UPDATING_SEL THEN {<<>>} ELSE ScriptSels
    /\ cutoff \in {0, 1}
    /\ expected_max_contacts = DefaultMaxContacts
    /\ debug \in BOOLEAN
    /\ N_FRAMES \in 1..MaxFrames
    /\ pc = "start"
    /\ NoLocals
    /\ NewAccumulators

Init == InitCall \/ InitScript

\* ---------------------------------------------------------------- actions
\* the script checks its arguments: the cutoff must be positive and a group
\* that is not updating must not be empty
CheckArgs ==
    /\ caller = "script"
    /\ pc = "start"
    /\ error' = IF cutoff <= 0 THEN <<"ValueError", 985>>
                ELSE IF n_atoms(ref) = 0 /\ ~UPDATING_REF
                THEN <<"ValueError", 995>>
                ELSE IF n_atoms(sel) = 0 /\ ~UPDATING_SEL
                THEN <<"ValueError", 997>>
                ELSE <<>>
    /\ pc' = IF error' = <<>> THEN "loop" ELSE "raise"
    /\ UNCHANGED <<acf, args, near, warnings, caller, locals, ret, script>>

\* contact_hist warns about a cutoff that is not positive
cutoff_warning == IF cutoff <= 0 THEN {438} ELSE {}

\* faulty variant of no_contact_possible: the cutoff is not looked at
no_selection(s, c) == n_atoms(s) = 0

\* sel.n_atoms == 0 or cutoff <= 0
no_contact_possible(s, c) == n_atoms(s) = 0 \/ c <= 0

\* faulty variant of trivial_hists: the number of atoms in all histograms
\* but the pair histograms
trivial_hists_atoms(r) ==
    [i \in 1..11 |-> IF i <= 8 THEN <<n_atoms(r)>> ELSE <<0>>]

\* the result without any contact: all reference atoms and residues in the
\* first element, empty pair histograms
trivial_hists(r) ==
    [i \in 1..11 |->
        IF i <= 3 THEN <<n_atoms(r)>>
        ELSE IF i <= 8 THEN <<n_residues(r)>>
        ELSE <<0>>]

\* contact_hist, return for an empty reference group
ReturnEmptyRef ==
    /\ pc = "call"
    /\ n_atoms(ref) = 0
    /\ ret' = [i \in 1..11 |-> <<0>>]
    /\ warnings' = warnings \cup cutoff_warning
    /\ pc' = "ret"
    /\ UNCHANGED <<acf, args, near, error, caller, locals, script>>

\* contact_hist, return for an empty selection group or non-positive cutoff
ReturnTrivial ==
    /\ pc = "call"
    /\ n_atoms(ref) # 0
    /\ no_contact_possible(sel, cutoff)
    /\ ret' = trivial_hists(ref)
    /\ warnings' = warnings \cup cutoff_warning
    /\ pc' = "ret"
    /\ UNCHANGED <<acf, args, near, error, caller, locals, script>>

\* faulty variant of Allocate: refatm_selatm is not created anew, the counts
\* of the frames before are kept
Allocate_stale ==
    /\ pc = "call"
    /\ n_atoms(ref) # 0
    /\ ~no_contact_possible(sel, cutoff)
    /\ LET len == InitialLength(expected_max_contacts)
           nres == n_residues(ref)
       IN /\ refatm_selatm' = IF caller = "script" THEN hist_atm[1]
                              ELSE Zeros(len)
          /\ refatm_diff_selres' = Zeros(len)
          /\ refatm_same_selres' = Zeros(len)
          /\ refres_diff_selatm' = Zeros(nres)
          /\ refres_selatm_tot' = Zeros(nres)
          /\ refres_diff_selres' = Zeros(nres)
          /\ refatm_selres_pair' = Zeros(len)
          /\ refres_selatm_pair' = [r \in 1..nres |-> Zeros(n_atoms(sel))]
          /\ refres_selres_pair' = [r \in 1..nres |-> Zeros(n_residues(sel))]
          /\ selatm_unused' = [r \in 1..nres |->
                                  [c \in 1..n_atoms(sel) |-> TRUE]]
          /\ selres_unused' = [r \in 1..nres |->
                                  [c \in 1..n_residues(sel) |-> TRUE]]
    /\ warnings' = warnings \cup cutoff_warning
    /\ pc' = "atoms"
    /\ UNCHANGED <<acf, args, near, error, caller, samehists, ret, script>>

\* contact_hist, allocation of the arrays
Allocate ==
    /\ pc = "call"
    /\ n_atoms(ref) # 0
    /\ ~no_contact_possible(sel, cutoff)
    /\ LET len == InitialLength(expected_max_contacts)
           nres == n_residues(ref)
       IN /\ refatm_selatm' = Zeros(len)
          /\ refatm_diff_selres' = Zeros(len)
          /\ refatm_same_selres' = Zeros(len)
          /\ refres_diff_selatm' = Zeros(nres)
          /\ refres_selatm_tot' = Zeros(nres)
          /\ refres_diff_selres' = Zeros(nres)
          /\ refatm_selres_pair' = Zeros(len)
          /\ refres_selatm_pair' = [r \in 1..nres |-> Zeros(n_atoms(sel))]
          /\ refres_selres_pair' = [r \in 1..nres |-> Zeros(n_residues(sel))]
          /\ selatm_unused' = [r \in 1..nres |->
                                  [c \in 1..n_atoms(sel) |-> TRUE]]
          /\ selres_unused' = [r \in 1..nres |->
                                  [c \in 1..n_residues(sel) |-> TRUE]]
    /\ warnings' = warnings \cup cutoff_warning
    /\ pc' = "atoms"
    /\ UNCHANGED <<acf, args, near, error, caller, samehists, ret, script>>

\* one pass of the loop over the reference atoms; sel_near_ref is the result
\* of the neighbour query for the atom
RefAtom(sel_near_ref) ==
    /\ pc = "atoms"
    /\ Len(near) < n_atoms(ref)
    /\ near' = Append(near, sel_near_ref)
    /\ LET natm == Cardinality(sel_near_ref)
           nres == Cardinality({sel[a] : a \in sel_near_ref})
           selresids_counts == near_selresids_counts(sel_near_ref)
           refresid == refresid_of(Len(near) + 1)
           selatmids == selatmids_indices(sel_near_ref)
           selresids == selresids_indices(sel_near_ref)
       IN /\ refatm_selatm' = increment(refatm_selatm, natm)
          /\ refatm_diff_selres' = increment(refatm_diff_selres, nres)
          /\ IF Len(selresids_counts) = 0
             THEN /\ refatm_same_selres' = IncAt(refatm_same_selres, 0, 1)
                  /\ refatm_selres_pair' = refatm_selres_pair
             ELSE LET selresids_counts_max == SeqMax(selresids_counts)
                  IN /\ refatm_same_selres' =
                            FancyInc(extend(refatm_same_selres,
                                            selresids_counts_max + 1),
                                     selresids_counts)
                     /\ refatm_selres_pair' =
                            AddAt(extend(refatm_selres_pair,
                                         selresids_counts_max + 1),
                                  selresids_counts, Ones(selresids_counts))
          /\ refres_selatm_tot' = IncAt(refres_selatm_tot, refresid, natm)
          /\ refres_diff_selatm' =
                 IncAt(refres_diff_selatm, refresid,
                       CountUnused(selatm_unused, refresid, selatmids))
          /\ selatm_unused' = ClearMask(selatm_unused, refresid, selatmids)
          /\ refres_selatm_pair' =
                 IncRow(refres_selatm_pair, refresid, selatmids)
          /\ refres_diff_selres' =
                 IncAt(refres_diff_selres, refresid,
                       CountUnused(selres_unused, refresid, Range(selresids)))
          /\ selres_unused' =
                 ClearMask(selres_unused, refresid, Range(selresids))
          /\ refres_selres_pair' =
                 [refres_selres_pair EXCEPT ![refresid + 1] =
                     AddAt(@, selresids, selresids_counts)]
    /\ UNCHANGED <<acf, args, pc, error, warnings, caller, samehists, ret, script>>

\* after the loop: 'same' histograms, bincounts, common length, the debug
\* checks if requested, return
Finish ==
    /\ pc = "atoms"
    /\ Len(near) = n_atoms(ref)
    /\ \E hists \in {unify(<<refatm_selatm,
                              refatm_diff_selres,
                              refatm_same_selres,
                              bincount(refres_diff_selatm),
                              same_hist(refres_selatm_pair, n_residues(ref)),
                              bincount(refres_selatm_tot),
                              bincount(refres_diff_selres),
                              same_hist(refres_selres_pair, n_residues(ref)),
                              refatm_selres_pair,
                              pair_hist(refres_selatm_pair),
                              pair_hist(refres_selres_pair)>>)} :
           /\ refatm_selatm' = hists[1]
           /\ refatm_diff_selres' = hists[2]
           /\ refatm_same_selres' = hists[3]
           /\ refres_diff_selatm' = hists[4]
           /\ refres_same_selatm' = hists[5]
           /\ refres_selatm_tot' = hists[6]
           /\ refres_diff_selres' = hists[7]
           /\ refres_same_selres' = hists[8]
           /\ refatm_selres_pair' = hists[9]
           /\ refres_selatm_pair' = hists[10]
           /\ refres_selres_pair' = hists[11]
           /\ error' = IF debug THEN debug_check(hists, ref, sel) ELSE <<>>
           /\ ret' = IF error' = <<>> THEN hists ELSE <<>>
    /\ selatm_unused' = <<>>
    /\ selres_unused' = <<>>
    /\ pc' = IF error' = <<>> THEN "ret" ELSE "raise"
    /\ UNCHANGED <<acf, args, near, warnings, caller, script>>

\* the trajectory loop reads the next frame: updating groups are
\* re-evaluated, the totals are updated, a frame with an empty reference
\* group is skipped, otherwise contact_hist is called
NextFrame ==
    /\ caller = "script"
    /\ pc = "loop"
    /\ frame < N_FRAMES
    /\ frame' = frame + 1
    /\ ref' \in IF UPDATING_REF THEN ScriptRefs ELSE {ref}
    /\ sel' \in IF UPDATING_SEL THEN ScriptSels ELSE {sel}
    /\ n_refatm' = IF UPDATING_REF THEN n_refatm + n_atoms(ref') ELSE n_refatm
    /\ n_refres' = IF UPDATING_REF THEN n_refres + n_residues(ref')
                   ELSE n_refres
    /\ n_selatm' = IF UPDATING_SEL THEN n_selatm + n_atoms(sel') ELSE n_selatm
    /\ n_selres' = IF UPDATING_SEL THEN n_selres + n_residues(sel')
                   ELSE n_selres
    /\ pc' = IF n_atoms(ref') = 0 THEN "loop" ELSE "call"
    /\ expected_max_contacts' = Len(hist_atm[1])
    /\ UNCHANGED <<acf, cutoff, debug, near, error, warnings, caller, locals, ret,
                   flags, accs, n_pairs>>

\* the trajectory loop adds the returned histograms to the accumulators
Merge ==
    /\ caller = "script"
    /\ pc = "ret"
    /\ hist_atm' = merge(hist_atm, Rows(ret, 0, 3))
    /\ hist_res' = merge(hist_res, Rows(ret, 3, 8))
    /\ hist_par' = merge(hist_par, Rows(ret, 8, 11))
    /\ n_pairs' = [i \in 1..3 |-> n_pairs[i] + Sum(ret[8 + i])]
    /\ pc' = "loop"
    /\ refatm_selatm' = <<>> /\ refatm_diff_selres' = <<>>
    /\ refatm_same_selres' = <<>> /\ refres_diff_selatm' = <<>>
    /\ refres_same_selatm' = <<>> /\ refres_selatm_tot' = <<>>
    /\ refres_diff_selres' = <<>> /\ refres_same_selres' = <<>>
    /\ refatm_selres_pair' = <<>> /\ refres_selatm_pair' = <<>>
    /\ refres_selres_pair' = <<>>
    /\ near' = <<>>
    /\ ret' = <<>>
    /\ UNCHANGED <<acf, args, error, warnings, caller, masks, flags, frame,
                   totals>>

\* after the last frame: the warnings about empty totals, the divisors of
\* the groups that are not updating, the normalisation and the averages
Normalise ==
    /\ caller = "script"
    /\ pc = "loop"
    /\ frame = N_FRAMES
    /\ warnings' = warnings
                   \cup (IF UPDATING_REF /\ n_refatm = 0 THEN {1079} ELSE {})
                   \cup (IF UPDATING_SEL /\ n_selatm = 0 THEN {1082} ELSE {})
    /\ n_refatm' = final_total(UPDATING_REF, n_refatm, n_atoms(ref), N_FRAMES)
    /\ n_refres' = final_total(UPDATING_REF, n_refres, n_residues(ref),
                               N_FRAMES)
    /\ n_selatm' = final_total(UPDATING_SEL, n_selatm, n_atoms(sel), N_FRAMES)
    /\ n_selres' = final_total(UPDATING_SEL, n_selres, n_residues(sel),
                               N_FRAMES)
    /\ pc' = "check"
    /\ UNCHANGED <<acf, args, near, error, caller, locals, ret, flags, frame, accs,
                   n_pairs>>

\* the output is written and checked for consistency
FinalCheck ==
    /\ caller = "script"
    /\ pc = "check"
    /\ error' = LET line == final_check
                IN IF line = 0 THEN <<>> ELSE <<"ValueError", line>>
    /\ pc' = IF error' = <<>> THEN "done" ELSE "raise"
    /\ UNCHANGED <<acf, args, near, warnings, caller, locals, ret, script>>

\* the neighbour query may return any subset of the selection group; for the
\* large groups of the script: no atom, the first atom or all atoms
NearChoices ==
    IF caller = "direct" THEN SUBSET (1..n_atoms(sel))
    ELSE {{}, {1}, 1..n_atoms(sel)}

Query == \E sel_near_ref \in NearChoices : RefAtom(sel_near_ref)

Next ==
    \/ CheckArgs
    \/ ReturnEmptyRef
    \/ ReturnTrivial
    \/ Allocate
    \/ Query
    \/ Finish
    \/ NextFrame
    \/ Merge
    \/ Normalise
    \/ FinalCheck

Spec == Init /\ [][Next]_vars

\* ------------------------------------------- the debug checks on their own
\* The debug checks of contact_hist applied to arbitrary histograms: to
\* histograms that may violate what the checks are there to detect, which
\* the histograms computed by contact_hist never do.

\* a tuple of eleven histograms of MaxExpected elements for a reference
\* group r, with x atoms and y residues without contact and one pair
PlainHists(r, x, y) ==
    [i \in 1..11 |->
        [n \in 1..MaxExpected |->
            IF i <= 3 THEN (IF n = 1 THEN x
                            ELSE IF n = 2 THEN n_atoms(r) - x ELSE 0)
            ELSE IF i <= 8 THEN (IF n = 1 THEN y
                                 ELSE IF n = 2 THEN n_residues(r) - y ELSE 0)
            ELSE (IF n = 2 THEN 1 ELSE 0)]]

\* the positions of the elements of such a tuple
Elements == (1..11) \X (1..MaxExpected)

\* the tuples to check: a plain tuple with up to two elements replaced by
\* arbitrary counts
CheckedHists(r) ==
    {[PlainHists(r, x, y) EXCEPT ![e1[1]][e1[2]] = v1, ![e2[1]][e2[2]] = v2] :
        <<x, y, e1, v1, e2, v2>> \in
            (0..n_atoms(r)) \X (0..n_residues(r))
            \X Elements \X (0..MaxCount) \X Elements \X (0..MaxCount)}

InitDebug ==
    /\ NoAutocorr
    /\ caller = "check"
    /\ ref \in Groups(2) \ {<<>>}
    /\ sel \in Groups(2) \ {<<>>}
    /\ cutoff = 1
    /\ expected_max_contacts = MaxExpected
    /\ debug = TRUE
    /\ pc = "debug"
    /\ \E hists \in CheckedHists(ref) :
           /\ refatm_selatm = hists[1]
           /\ refatm_diff_selres = hists[2]
           /\ refatm_same_selres = hists[3]
           /\ refres_diff_selatm = hists[4]
           /\ refres_same_selatm = hists[5]
           /\ refres_selatm_tot = hists[6]
           /\ refres_diff_selres = hists[7]
           /\ refres_same_selres = hists[8]
           /\ refatm_selres_pair = hists[9]
           /\ refres_selatm_pair = hists[10]
           /\ refres_selres_pair = hists[11]
    /\ selatm_unused = <<>> /\ selres_unused = <<>>
    /\ near = <<>>
    /\ ret = <<>>
    /\ error = <<>>
    /\ warnings = {}
    /\ UPDATING_REF = FALSE /\ UPDATING_SEL = FALSE /\ N_FRAMES = 0
    /\ NewAccumulators

\* the block 'if debug:' and the return statement of contact_hist
CheckHists ==
    /\ caller = "check"
    /\ pc = "debug"
    /\ \E hists \in {<<refatm_selatm, refatm_diff_selres, refatm_same_selres,
                        refres_diff_selatm, refres_same_selatm,
                        refres_selatm_tot, refres_diff_selres,
                        refres_same_selres, refatm_selres_pair,
                        refres_selatm_pair, refres_selres_pair>>} :
           /\ error' = debug_check(hists, ref, sel)
           /\ ret' = IF error' = <<>> THEN hists ELSE <<>>
    /\ pc' = IF error' = <<>> THEN "ret" ELSE "raise"
    /\ UNCHANGED <<acf, args, near, warnings, caller, locals, script>>

NextDebug == CheckHists

SpecDebug == InitDebug /\ [][NextDebug]_vars

\* ------------------------------------------- the final checks on their own
\* The consistency checks at the end of the script applied to arbitrary
\* accumulators: to accumulators that may violate what the checks are there
\* to detect, which the accumulated results of contact_hist never do.  The
\* run is one of a single frame with groups that are not updating.

\* accumulators of DefaultMaxContacts bins for a reference group r with x
\* atoms and y residues without contact and one pair
PlainAccumulators(r, x, y) ==
    [i \in 1..11 |->
        [n \in 1..DefaultMaxContacts |->
            IF i <= 3 THEN (IF n = 1 THEN x
                            ELSE IF n = 2 THEN n_atoms(r) - x ELSE 0)
            ELSE IF i <= 8 THEN (IF n = 1 THEN y
                                 ELSE IF n = 2 THEN n_residues(r) - y ELSE 0)
            ELSE (IF n = 2 THEN 1 ELSE 0)]]

\* the accumulators to check: up to two of the first MaxExpected bins are
\* replaced by arbitrary counts
CheckedAccumulators(r) ==
    {[PlainAccumulators(r, x, y)
          EXCEPT ![e1[1]][e1[2]] = v1, ![e2[1]][e2[2]] = v2] :
        <<x, y, e1, v1, e2, v2>> \in
            (0..n_atoms(r)) \X (0..n_residues(r))
            \X Elements \X (0..MaxCount) \X Elements \X (0..MaxCount)}

InitFinal ==
    /\ NoAutocorr
    /\ caller = "script"
    /\ ref \in Groups(2) \ {<<>>}
    /\ sel \in Groups(2) \ {<<>>}
    /\ cutoff = 1
    /\ expected_max_contacts = DefaultMaxContacts
    /\ debug = FALSE
    /\ pc = "check"
    /\ NoLocals
    /\ UPDATING_REF = FALSE /\ UPDATING_SEL = FALSE
    /\ N_FRAMES = 1
    /\ frame = 1
    /\ \E hists \in CheckedAccumulators(ref) :
           /\ hist_atm = Rows(hists, 0, 3)
           /\ hist_res = Rows(hists, 3, 8)
           /\ hist_par = Rows(hists, 8, 11)
    /\ n_refatm = n_atoms(ref) /\ n_refres = n_residues(ref)
    /\ n_selatm = n_atoms(sel) /\ n_selres = n_residues(sel)
    /\ n_pairs = <<1, 1, 1>>

NextFinal == FinalCheck

SpecFinal == InitFinal /\ [][NextFinal]_vars

\* ---------------------------------------------------------- autocorr_dtraj
\* The frames and the lags are 0-based as in the source: frame t of the
\* trajectory d is d[t + 1], element lag of an array a is a[lag + 1].  The
\* elements of the returned array are fractions <<numerator, denominator>>
\* as above; the rounding of float32 is not modelled.

\* the state indices of the model: a negative state and two other states
StateIndices == {-1, 0, 1}

\* dtraj.shape[0], dtraj.shape[1] of a trajectory of one frame or more
n_frames_of(d) == Len(d)
n_compounds_of(d) == Len(d[1])

\* np.any(dtraj >= 0, axis=0): the compounds that are in a non-negative
\* state in some frame
ever_valid(d) ==
    {c \in 1..n_compounds_of(d) : \E t \in DOMAIN d : d[t][c] >= 0}

\* dtraj[:, valid]
take_columns(d, cols) ==
    LET keep == SortSet(cols)
    IN [t \in DOMAIN d |-> [k \in DOMAIN keep |-> d[t][keep[k]]]]

\* the compounds that are never in a non-negative state are dropped if
\* fewer than 90 % of the compounds are left
prefilter(d) ==
    IF 10 * Cardinality(ever_valid(d)) < 9 * n_compounds_of(d)
    THEN take_columns(d, ever_valid(d))
    ELSE d

\* np.greater_equal(dtraj[t], 0): the compounds in a non-negative state
valid_at(d, t) == {c \in 1..n_compounds_of(d) : d[t + 1][c] >= 0}

\* np.equal(dtraj[t0], dtraj[t0+lag]): the compounds in the same state
same_state(d, t0, lag) ==
    {c \in 1..n_compounds_of(d) : d[t0 + 1][c] = d[t0 + lag + 1][c]}

\* np.equal(valid, valid2): the compounds that are in a non-negative state
\* at both frames or at neither
valid3(d, t0, lag) ==
    {c \in 1..n_compounds_of(d) :
        (d[t0 + 1][c] >= 0) <=> (d[t0 + lag + 1][c] >= 0)}

\* autocorr[lag] += a; norm[lag] += n
accumulate(acc, lag, a, n) ==
    [autocorr |-> IncAt(acc.autocorr, lag, a),
     norm |-> IncAt(acc.norm, lag, n)]

\* the loop over the lags of the branch 'if cut:', from lag on
RECURSIVE cut_lags(_, _, _, _)
cut_lags(d, t0, lag, acc) ==
    IF lag >= n_frames_of(d) - t0 THEN acc
    ELSE IF valid3(d, t0, lag) = {} THEN acc
    ELSE cut_lags(d, t0, lag + 1,
                  accumulate(acc, lag,
                             Cardinality(same_state(d, t0, lag)
                                         \cap valid3(d, t0, lag)),
                             Cardinality(valid3(d, t0, lag))))

\* faulty variant of merge_lags: every compound is counted, whatever its
\* state at the restarting point
merge_lags_all(d, t0, lag, acc) ==
    [autocorr |-> [l \in DOMAIN acc.autocorr |->
                      IF l - 1 >= lag /\ l - 1 < n_frames_of(d) - t0
                      THEN acc.autocorr[l]
                           + Cardinality(same_state(d, t0, l - 1))
                      ELSE acc.autocorr[l]],
     norm |-> [l \in DOMAIN acc.norm |->
                  IF l - 1 >= lag /\ l - 1 < n_frames_of(d) - t0
                  THEN acc.norm[l] + n_compounds_of(d)
                  ELSE acc.norm[l]]]

\* the branch 'elif cut_and_merge:' for a restarting point with a valid
\* compound: norm[1:n_frames-t0] += n_valid and the loop over the lags
merge_lags(d, t0, lag, acc) ==
    [autocorr |-> [l \in DOMAIN acc.autocorr |->
                      IF l - 1 >= lag /\ l - 1 < n_frames_of(d) - t0
                      THEN acc.autocorr[l]
                           + Cardinality(same_state(d, t0, l - 1)
                                         \cap valid_at(d, t0))
                      ELSE acc.autocorr[l]],
     norm |-> [l \in DOMAIN acc.norm |->
                  IF l - 1 >= lag /\ l - 1 < n_frames_of(d) - t0
                  THEN acc.norm[l] + Cardinality(valid_at(d, t0))
                  ELSE acc.norm[l]]]

\* the branch 'else:' (neither cut nor cut_and_merge), the loop over the lags
plain_lags(d, t0, lag, acc) ==
    [autocorr |-> [l \in DOMAIN acc.autocorr |->
                      IF l - 1 >= lag /\ l - 1 < n_frames_of(d) - t0
                      THEN acc.autocorr[l]
                           + Cardinality(same_state(d, t0, l - 1))
                      ELSE acc.autocorr[l]],
     norm |-> acc.norm]

\* the body of the loop over the restarting points
restart_point(d, c, cm, t0, acc) ==
    IF c THEN cut_lags(d, t0, 1, acc)
    ELSE IF cm
    THEN (IF valid_at(d, t0) = {} THEN acc ELSE merge_lags(d, t0, 1, acc))
    ELSE plain_lags(d, t0, 1, acc)

\* for t0 in range(0, n_frames-1, restart), from t0 on
RECURSIVE restart_loop(_, _, _, _, _, _)
restart_loop(d, r, c, cm, t0, acc) ==
    IF t0 >= n_frames_of(d) - 1 THEN acc
    ELSE restart_loop(d, r, c, cm, t0 + r, restart_point(d, c, cm, t0, acc))

\* faulty variant of n_restarts: rounded down
n_restarts_floor(n, r, lag) == (n - lag) \div r

\* np.ceil(np.arange(n_frames, 0, -1) / restart)[lag]
n_restarts(n, r, lag) == (n - lag + r - 1) \div r

\* x < 0
less_than_zero(x) == x[1] < 0

\* autocorr_dtraj after the pre-filter: the result is the exception raised
\* (<<>> if none), the returned array and the array norm
autocorr_filtered(d, r, c, cm) ==
    LET n == n_frames_of(d)
        acc == restart_loop(d, r, c, cm, 0,
                            [autocorr |-> Zeros(n), norm |-> Zeros(n)])
        norm1 == IF c \/ cm THEN [acc.norm EXCEPT ![1] = 1] ELSE <<>>
        quot == [l \in 1..n |->
                    IF c \/ cm
                    THEN <<acc.autocorr[l], norm1[l]>>
                    ELSE <<acc.autocorr[l],
                           n_restarts(n, r, l - 1) * n_compounds_of(d)>>]
        result == [quot EXCEPT ![1] = One]
        raised == IF (c \/ cm) /\ acc.norm[1] # 0 THEN 289
                  ELSE IF not_equal(quot[1], Nought) THEN 301
                  ELSE IF \E l \in 1..n : greater_than_one(result[l]) THEN 305
                  ELSE IF \E l \in 1..n : less_than_zero(result[l]) THEN 308
                  ELSE 0
    IN IF raised # 0
       THEN [error |-> <<"ValueError", raised>>, autocorr |-> <<>>,
             norm |-> <<>>]
       ELSE [error |-> <<>>, autocorr |-> result, norm |-> norm1]

\* autocorr_dtraj(dtraj, restart, cut, cut_and_merge) for a 2-dimensional
\* dtraj of integers with one frame and one compound or more
autocorr_dtraj(d, r, c, cm) ==
    IF c /\ cm
    THEN [error |-> <<"ValueError", 214>>, autocorr |-> <<>>, norm |-> <<>>]
    ELSE autocorr_filtered(IF c \/ cm THEN prefilter(d) ELSE d, r, c, cm)

\* the trajectories the function is called with: one compound, two
\* compounds, or BigCompounds compounds of one course and one of another
Courses(n) == [1..n -> StateIndices]

Trajectories ==
    UNION {{[t \in 1..n |-> [c \in 1..(m[1] + m[2]) |->
                                 IF c <= m[1] THEN a[t] ELSE b[t]]] :
               <<a, b, m>> \in Courses(n) \X Courses(n)
                               \X {<<1, 0>>, <<1, 1>>, <<BigCompounds, 1>>}} :
           n \in 1..MaxTrajFrames}

InitAutocorr ==
    /\ caller = "autocorr"
    /\ pc = "autocorr"
    /\ dtraj \in Trajectories
    /\ restart \in 1..MaxRestart
    /\ cut \in BOOLEAN
    /\ cut_and_merge \in BOOLEAN
    /\ autocorr = <<>>
    /\ norm = <<>>
    /\ ref = <<>> /\ sel = <<>> /\ cutoff = 1
    /\ expected_max_contacts = DefaultMaxContacts
    /\ debug = FALSE
    /\ NoLocals
    /\ UPDATING_REF = FALSE /\ UPDATING_SEL = FALSE /\ N_FRAMES = 0
    /\ NewAccumulators

\* the call of autocorr_dtraj
Autocorr ==
    /\ caller = "autocorr"
    /\ pc = "autocorr"
    /\ \E res \in {autocorr_dtraj(dtraj, restart, cut, cut_and_merge)} :
           /\ error' = res.error
           /\ autocorr' = res.autocorr
           /\ norm' = res.norm
    /\ pc' = IF error' = <<>> THEN "ret" ELSE "raise"
    /\ UNCHANGED <<args, near, warnings, caller, locals, ret, script, dtraj,
                   restart, cut, cut_and_merge>>

NextAutocorr == Autocorr

SpecAutocorr == InitAutocorr /\ [][NextAutocorr]_vars

\* ------------------------------------------------------------ properties
\* The properties compare the histograms with counts taken directly from the
\* arguments of the call: the groups and the neighbour sets.

\* bin n of a histogram, bins beyond its length read as 0
Bin(h, n) == IF (n + 1) \in DOMAIN h THEN h[n + 1] ELSE 0

\* neighbour set of the a-th reference atom (no query, no neighbour)
NearOf(a) == IF a \in DOMAIN near THEN near[a] ELSE {}

RefAtoms == DOMAIN ref
RefResidues == Range(ref)
SelResidues == Range(sel)
AtomsOf(r) == {a \in RefAtoms : ref[a] = r}

\* bonds between a reference atom and a selection residue
AtomResBonds(a, q) == Cardinality({b \in NearOf(a) : sel[b] = q})

\* selection residues touched by a reference atom
ResTouched(a) == {sel[b] : b \in NearOf(a)}

\* bonds between a reference residue and a selection atom / residue
ResAtomBonds(r, b) == Cardinality({a \in AtomsOf(r) : b \in NearOf(a)})
ResResBonds(r, q) ==
    Cardinality({p \in AtomsOf(r) \X {b \in DOMAIN sel : sel[b] = q} :
                    p[2] \in NearOf(p[1])})

\* the pairs <<a, n>> of a reference atom and the number n of bonds it has
\* with some selection residue (zero included); likewise for a reference
\* residue and some selection atom, and some selection residue
AtomResCounts ==
    {<<p[1], AtomResBonds(p[1], p[2])>> : p \in RefAtoms \X SelResidues}
ResAtomCounts ==
    {<<p[1], ResAtomBonds(p[1], p[2])>> : p \in RefResidues \X DOMAIN sel}
ResResCounts ==
    {<<p[1], ResResBonds(p[1], p[2])>> : p \in RefResidues \X SelResidues}

\* total number of contacts of the call
RECURSIVE ContactsTo(_)
ContactsTo(a) == IF a = 0 THEN 0 ELSE Cardinality(NearOf(a)) + ContactsTo(a - 1)

TotalContacts == ContactsTo(Len(ref))

Returned == pc = "ret"
Bins == 0..(IF Returned THEN Len(ret[1]) ELSE 0)

SingletonRef == Len(ref) = n_residues(ref)
SingletonSel == Len(sel) = n_residues(sel)

\* C1: contact_hist returns refatm_selatm and refatm_diff_selres that each
\* sum to the number of reference atoms, on every return path.
C1_AtomSums ==
    Returned => /\ Sum(ret[1]) = n_atoms(ref)
                /\ Sum(ret[2]) = n_atoms(ref)

C1_Witness ==
    /\ Returned
    /\ Len(near) = 2
    /\ Cardinality(near[1]) = 2
    /\ Cardinality(near[2]) = 2
    /\ Sum(ret[1]) = 2

\* C2: contact_hist returns refres_diff_selatm, refres_selatm_tot and
\* refres_diff_selres that each sum to the number of reference residues.
C2_ResidueSums ==
    Returned => /\ Sum(ret[4]) = n_residues(ref)
                /\ Sum(ret[6]) = n_residues(ref)
                /\ Sum(ret[7]) = n_residues(ref)

C2_Witness ==
    /\ Returned
    /\ Len(near) = 2
    /\ n_residues(ref) = 2
    /\ near[1] = {}
    /\ near[2] # {}
    /\ Sum(ret[4]) = 2

\* C3: bin 0 of the three pair histograms is 0 in every returned result, and
\* bin 0 of every row of the accumulator hist_par is 0 after any number of
\* merged frames.
C3_PairBinZero ==
    /\ Returned => \A i \in 9..11 : ret[i][1] = 0
    /\ \A r \in DOMAIN hist_par : hist_par[r][1] = 0

C3_Witness ==
    /\ pc = "loop"
    /\ frame = 2
    /\ \A r \in DOMAIN hist_par : Sum(hist_par[r]) > 0

\* C4: in every returned result the no-contact bins agree: bin 0 of the
\* atom-level histograms is the number of reference atoms without neighbour,
\* bin 0 of the residue-level histograms is the number of reference residues
\* without neighbour, and units without neighbour add nothing to the pair
\* histograms, which count the connected pairs only.
C4_NoContactBins ==
    Returned =>
        /\ ret[2][1] = ret[1][1]
        /\ ret[3][1] = ret[1][1]
        /\ \A i \in {5, 6, 7, 8} : ret[i][1] = ret[4][1]
        /\ ret[1][1] = Cardinality({a \in RefAtoms : NearOf(a) = {}})
        /\ ret[4][1] =
               Cardinality({r \in RefResidues :
                               \A a \in AtomsOf(r) : NearOf(a) = {}})
        /\ Sum(ret[9]) =
               Cardinality({p \in RefAtoms \X SelResidues :
                               \E b \in NearOf(p[1]) : sel[b] = p[2]})
        /\ Sum(ret[10]) =
               Cardinality({p \in RefResidues \X DOMAIN sel :
                               \E a \in AtomsOf(p[1]) : p[2] \in NearOf(a)})
        /\ Sum(ret[11]) =
               Cardinality({p \in RefResidues \X SelResidues :
                               \E a \in AtomsOf(p[1]) :
                                   \E b \in NearOf(a) : sel[b] = p[2]})

C4_Witness ==
    /\ Returned
    /\ Len(near) = 2
    /\ n_residues(ref) = 2
    /\ near[1] = {}
    /\ Cardinality(near[2]) = 2
    /\ ret[1][1] = 1
    /\ ret[4][1] = 1

\* C5: the eleven returned histograms have the same length on every return
\* path, and the accumulators hist_atm, hist_res and hist_par have the same
\* number of bins, in all their rows, after every merged frame.
C5_SameLength ==
    /\ Returned => \A i \in 1..11 : Len(ret[i]) = Len(ret[1])
    /\ \A r \in DOMAIN hist_atm : Len(hist_atm[r]) = Len(hist_atm[1])
    /\ \A r \in DOMAIN hist_res : Len(hist_res[r]) = Len(hist_atm[1])
    /\ \A r \in DOMAIN hist_par : Len(hist_par[r]) = Len(hist_atm[1])

C5_Witness ==
    /\ pc = "loop"
    /\ frame = 2
    /\ Len(hist_atm[1]) > DefaultMaxContacts
    /\ Len(hist_par[3]) = Len(hist_atm[1])

\* C6: if every reference residue has exactly one atom in the reference
\* group, the residue-level histograms equal the atom-level ones, and
\* refres_selatm_pair is zero except for bin 1, the total number of contacts.
C6_SingletonRef ==
    (Returned /\ SingletonRef) =>
        /\ ret[4] = ret[1]
        /\ ret[6] = ret[1]
        /\ ret[7] = ret[2]
        /\ ret[8] = ret[3]
        /\ ret[11] = ret[9]
        /\ Bin(ret[10], 1) = TotalContacts
        /\ \A n \in Bins \ {1} : Bin(ret[10], n) = 0

C6_Witness ==
    /\ Returned
    /\ SingletonRef
    /\ Len(near) = 2
    /\ near[1] = {1, 2}
    /\ near[2] = {2, 3}
    /\ Len(sel) = 3
    /\ n_residues(sel) = 2
    /\ Bin(ret[10], 1) = 4

\* C7: if every selection residue has exactly one atom in the selection
\* group, the selection-residue histograms equal the selection-atom ones, and
\* refatm_selres_pair is zero except for bin 1, the total number of contacts.
C7_SingletonSel ==
    (Returned /\ SingletonSel) =>
        /\ ret[2] = ret[1]
        /\ ret[7] = ret[4]
        /\ ret[8] = ret[5]
        /\ ret[11] = ret[10]
        /\ Bin(ret[9], 1) = TotalContacts
        /\ \A n \in Bins \ {1} : Bin(ret[9], n) = 0

C7_Witness ==
    /\ Returned
    /\ SingletonSel
    /\ Len(sel) = 3
    /\ Len(near) = 2
    /\ n_residues(ref) = 1
    /\ near[1] = {1, 2}
    /\ near[2] = {2, 3}
    /\ Bin(ret[9], 1) = 4

\* C8: for non-empty groups and a positive cutoff, during and after the loop
\* refatm_selatm[n] is the number of reference atoms looped over that have
\* exactly n selection atoms in their neighbour set and refatm_diff_selres[n]
\* the number that touch exactly n distinct selection residues; the bin of
\* every atom looped over lies within the histogram.
C8_AtomCounts ==
    (/\ pc \in {"atoms", "ret"}
     /\ n_atoms(ref) # 0 /\ n_atoms(sel) # 0 /\ cutoff > 0) =>
        /\ \A a \in DOMAIN near :
               /\ Cardinality(near[a]) < Len(refatm_selatm)
               /\ Cardinality(ResTouched(a)) < Len(refatm_diff_selres)
        /\ \A n \in 0..Len(refatm_selatm) :
               Bin(refatm_selatm, n) =
                   Cardinality({a \in DOMAIN near : Cardinality(near[a]) = n})
        /\ \A n \in 0..Len(refatm_diff_selres) :
               Bin(refatm_diff_selres, n) =
                   Cardinality({a \in DOMAIN near :
                                   Cardinality(ResTouched(a)) = n})

C8_Witness ==
    /\ Returned
    /\ expected_max_contacts = 1
    /\ Len(near) = 2
    /\ Cardinality(near[1]) = 3
    /\ Cardinality(near[2]) = 3
    /\ n_residues(sel) = 2
    /\ Bin(ret[1], 3) = 2
    /\ Bin(ret[2], 2) = 2

\* C9: for n >= 1, refatm_same_selres[n] is the number of reference atoms
\* with at least one selection residue contacted via exactly n bonds (a
\* multiplicity shared by several residues counts once per atom), and no bin
\* of refatm_same_selres exceeds the number of reference atoms.
C9_SameSelres ==
    Returned =>
        /\ LET counts == AtomResCounts
           IN \A n \in Bins \ {0} :
                  Bin(ret[3], n) =
                      Cardinality({a \in RefAtoms : <<a, n>> \in counts})
        /\ \A n \in Bins : Bin(ret[3], n) <= n_atoms(ref)

C9_Witness ==
    /\ Returned
    /\ Len(near) = 2
    /\ Len(sel) = 3
    /\ sel[1] = sel[2]
    /\ sel[2] # sel[3]
    /\ near[1] = {1, 3}
    /\ near[2] = {1, 2, 3}
    /\ Bin(ret[3], 1) = 2
    /\ Bin(ret[3], 2) = 1

\* C10: for n >= 1, refres_same_selatm[n] (refres_same_selres[n]) is the
\* number of reference residues with at least one selection atom (residue)
\* joined by exactly n bonds, a residue with two partners at the same bond
\* count counting once; bin 0 is the number of reference residues minus the
\* number of those with any bond.
C10_SameRefres ==
    Returned =>
        LET selatm == ResAtomCounts
            selres == ResResCounts
        IN /\ \A n \in Bins \ {0} :
                  /\ Bin(ret[5], n) =
                         Cardinality({r \in RefResidues : <<r, n>> \in selatm})
                  /\ Bin(ret[8], n) =
                         Cardinality({r \in RefResidues : <<r, n>> \in selres})
           /\ ret[5][1] =
                  n_residues(ref) -
                  Cardinality({r \in RefResidues :
                                  \E p \in selatm : p[1] = r /\ p[2] > 0})
           /\ ret[8][1] =
                  n_residues(ref) -
                  Cardinality({r \in RefResidues :
                                  \E p \in selres : p[1] = r /\ p[2] > 0})

C10_Witness ==
    /\ Returned
    /\ Len(near) = 2
    /\ n_residues(ref) = 1
    /\ Len(sel) = 3
    /\ n_residues(sel) = 3
    /\ near[1] = {1, 2}
    /\ near[2] = {1, 2, 3}
    /\ Bin(ret[5], 2) = 1
    /\ Bin(ret[5], 1) = 1

\* the triples <<unit, partner, n>> of a reference unit, a selection unit and
\* the number n of bonds between them (zero included)
AtomResPairs ==
    {<<p[1], p[2], AtomResBonds(p[1], p[2])>> : p \in RefAtoms \X SelResidues}
ResAtomPairs ==
    {<<p[1], p[2], ResAtomBonds(p[1], p[2])>> : p \in RefResidues \X DOMAIN sel}
ResResPairs ==
    {<<p[1], p[2], ResResBonds(p[1], p[2])>> : p \in RefResidues \X SelResidues}

\* C11: for n >= 1, refatm_selres_pair[n], refres_selatm_pair[n] and
\* refres_selres_pair[n] are the numbers of (reference atom, selection
\* residue), (reference residue, selection atom) and (reference residue,
\* selection residue) pairs joined by exactly n bonds; every pair is counted,
\* and the bond count of every pair lies within the histogram.
C11_PairCounts ==
    Returned =>
        LET atmres == AtomResPairs
            resatm == ResAtomPairs
            resres == ResResPairs
        IN /\ \A n \in Bins \ {0} :
                  /\ Bin(ret[9], n) = Cardinality({t \in atmres : t[3] = n})
                  /\ Bin(ret[10], n) = Cardinality({t \in resatm : t[3] = n})
                  /\ Bin(ret[11], n) = Cardinality({t \in resres : t[3] = n})
           /\ \A t \in atmres \cup resatm \cup resres : t[3] < Len(ret[1])

C11_Witness ==
    /\ Returned
    /\ Len(near) = 2
    /\ n_residues(ref) = 1
    /\ Len(sel) = 3
    /\ sel[1] # sel[2]
    /\ sel[2] = sel[3]
    /\ near[1] = {1, 2}
    /\ near[2] = {1, 2, 3}
    /\ Bin(ret[9], 1) = 3
    /\ Bin(ret[10], 2) = 2
    /\ Bin(ret[11], 2) = 1
    /\ Bin(ret[11], 3) = 1

\* the selection atoms / residues touched by the atoms of a reference
\* residue, and the total number of contacts of its atoms
AtomsTouchedBy(r) == UNION {NearOf(a) : a \in AtomsOf(r)}
ResiduesTouchedBy(r) == UNION {ResTouched(a) : a \in AtomsOf(r)}
ContactsOf(r) ==
    Cardinality({p \in AtomsOf(r) \X DOMAIN sel : p[2] \in NearOf(p[1])})

\* the tuples <<r, distinct atoms, distinct residues, contacts>> of the
\* reference residues
ResidueCounts ==
    {<<r, Cardinality(AtomsTouchedBy(r)), Cardinality(ResiduesTouchedBy(r)),
       ContactsOf(r)>> : r \in RefResidues}

\* C12: refres_diff_selatm[k] is the number of reference residues whose
\* atoms together touch exactly k distinct selection atoms,
\* refres_diff_selres[k] the number whose atoms touch exactly k distinct
\* selection residues (a partner touched by several atoms of the residue is
\* credited once), and refres_selatm_tot[k] the number whose atoms have k
\* contacts in total, multiplicities included.
C12_DistinctCounts ==
    Returned =>
        LET counts == ResidueCounts
        IN /\ \A k \in Bins :
                  /\ Bin(ret[4], k) = Cardinality({t \in counts : t[2] = k})
                  /\ Bin(ret[7], k) = Cardinality({t \in counts : t[3] = k})
                  /\ Bin(ret[6], k) = Cardinality({t \in counts : t[4] = k})
           /\ \A t \in counts : t[4] < Len(ret[1])

C12_Witness ==
    /\ Returned
    /\ Len(near) = 2
    /\ n_residues(ref) = 1
    /\ Len(sel) = 3
    /\ sel[1] = sel[2]
    /\ sel[2] # sel[3]
    /\ near[1] = {1, 2}
    /\ near[2] = {2, 3}
    /\ Bin(ret[4], 3) = 1
    /\ Bin(ret[7], 2) = 1
    /\ Bin(ret[6], 4) = 1

\* one accumulator before and after a step that merges the rows lo+1.. of
\* the returned tuple: no shorter, as long as the longer of accumulator and
\* frame, and every bin the sum of the two bins (missing bins read as 0)
Merged(acc, accn, lo) ==
    \A r \in DOMAIN acc :
        /\ Len(accn[r]) = Max(Len(acc[r]), Len(ret[lo + r]))
        /\ \A n \in 0..Len(accn[r]) :
               Bin(accn[r], n) = Bin(acc[r], n) + Bin(ret[lo + r], n)

\* a histogram before and after the length unification: no shorter, the
\* old bins unchanged and the added bins 0
Padded(h, hn) ==
    /\ Len(hn) >= Len(h)
    /\ \A n \in 0..Len(hn) : Bin(hn, n) = Bin(h, n)

\* C13: shape unification never truncates and never changes a count: the
\* length unification of contact_hist pads the histograms with zeros to the
\* common length, the accumulators never get shorter, a merge step makes
\* every accumulator bin the sum of the old bin and the frame's bin and no
\* other step changes an accumulator.
C13_ShapeLaw ==
    [][/\ \A r \in DOMAIN hist_atm : Len(hist_atm'[r]) >= Len(hist_atm[r])
       /\ \A r \in DOMAIN hist_res : Len(hist_res'[r]) >= Len(hist_res[r])
       /\ \A r \in DOMAIN hist_par : Len(hist_par'[r]) >= Len(hist_par[r])
       /\ IF pc = "ret" /\ pc' = "loop"
          THEN /\ Merged(hist_atm, hist_atm', 0)
               /\ Merged(hist_res, hist_res', 3)
               /\ Merged(hist_par, hist_par', 8)
          ELSE accs' = accs
       /\ (pc = "atoms" /\ pc' = "ret") =>
              /\ Padded(refatm_selatm, ret'[1])
              /\ Padded(refatm_diff_selres, ret'[2])
              /\ Padded(refatm_same_selres, ret'[3])
              /\ Padded(refatm_selres_pair, ret'[9])
              /\ \A i \in 1..11 : Len(ret'[i]) = Len(ret'[1])
      ]_vars

C13_Witness ==
    /\ pc = "loop"
    /\ frame = 2
    /\ Len(hist_atm[1]) = BigSelAtoms + 1
    /\ hist_atm[1][BigSelAtoms + 1] = 1
    /\ hist_atm[1][1] = 1
    /\ hist_par[2][2] = BigSelAtoms

\* the script has normalised the accumulators
Normalised ==
    /\ caller = "script"
    /\ pc \in {"check", "done"} \/ (pc = "raise" /\ error[2] >= 1255)

\* C14: the divisor of the atom-level (residue-level) histograms is the
\* number of reference atoms (residues) summed up over the frames: for an
\* updating reference group the accumulated histograms sum to n_refatm
\* (n_refres) after every frame, frames with an empty group included, and
\* after the normalisation they do so for a group that is not updating as
\* well, whose divisor is its size times N_FRAMES.
C14_Divisor ==
    /\ ((caller = "script" /\ pc = "loop" /\ UPDATING_REF) \/ Normalised) =>
           /\ Sum(hist_atm[1]) = n_refatm
           /\ Sum(hist_atm[2]) = n_refatm
           /\ Sum(hist_res[1]) = n_refres
           /\ Sum(hist_res[3]) = n_refres
           /\ Sum(hist_res[4]) = n_refres
    /\ (Normalised /\ ~UPDATING_REF) =>
           /\ frame = N_FRAMES
           /\ n_refatm = n_atoms(ref) * N_FRAMES
           /\ n_refres = n_residues(ref) * N_FRAMES

C14_Witness ==
    /\ Normalised
    /\ UPDATING_REF
    /\ N_FRAMES = 2
    /\ n_refatm = 3
    /\ n_refres = 2
    /\ hist_atm[1][1] = 2
    /\ Sum(hist_atm[1]) = 3

\* the script has run to its end or has raised in its final checks
Finalised ==
    /\ caller = "script"
    /\ pc = "done" \/ (pc = "raise" /\ error[2] >= 1255)

\* no reference atom is bound in any frame: P(0) = 1
NoneBound == n_refatm > 0 /\ hist_atm[1][1] = n_refatm

\* C15 (fails): when no reference unit is bound in any frame the average
\* over the bound reference atoms is not finite and the script runs through
\* the normalisation and the final checks without raising.
C15_UnboundCompletes ==
    (Finalised /\ NoneBound) =>
        /\ av_atm_bound(0)[2] = 0
        /\ pc = "done"

\* the trivial result: every reference atom and residue in bin 0
TrivialResult ==
    [i \in 1..11 |->
        IF i <= 3 THEN <<Len(ref)>>
        ELSE IF i <= 8 THEN <<Cardinality(RefResidues)>>
        ELSE <<0>>]

FrameCount(sets, i, n) ==
    CASE i = 1 -> Cardinality({a \in RefAtoms : Cardinality(NearOf(a)) = n})
      [] i = 2 -> Cardinality({a \in RefAtoms :
                                  Cardinality(ResTouched(a)) = n})
      [] i = 3 -> IF n = 0
                  THEN Cardinality({a \in RefAtoms : NearOf(a) = {}})
                  ELSE Cardinality({a \in RefAtoms : <<a, n>> \in sets[1]})
      [] i = 4 -> Cardinality({t \in sets[7] : t[2] = n})
      [] i = 5 -> IF n = 0
                  THEN Cardinality({t \in sets[7] : t[4] = 0})
                  ELSE Cardinality({r \in RefResidues : <<r, n>> \in sets[2]})
      [] i = 6 -> Cardinality({t \in sets[7] : t[4] = n})
      [] i = 7 -> Cardinality({t \in sets[7] : t[3] = n})
      [] i = 8 -> IF n = 0
                  THEN Cardinality({t \in sets[7] : t[4] = 0})
                  ELSE Cardinality({r \in RefResidues : <<r, n>> \in sets[3]})
      [] i \in 9..11 -> IF n = 0 THEN 0
                        ELSE Cardinality({t \in sets[i - 5] : t[3] = n})

\* the largest number of contacts of the atoms of one reference residue
MostContacts ==
    LET counts == {ContactsOf(r) : r \in RefResidues}
    IN IF counts = {} THEN 0
       ELSE CHOOSE m \in counts : \A c \in counts : c <= m

\* C18: expected_max_contacts is a capacity hint only: every bin of every
\* returned histogram is determined by the groups and the neighbour sets of
\* the frame, whatever the value, so that the results for two values agree
\* up to trailing zero bins; the common length is the larger of the hint
\* (16 for a hint that is not positive) and the length the contacts need;
\* the trivial results have one bin whatever the hint.
C18_CapacityHint ==
    Returned =>
        IF n_atoms(ref) = 0 \/ n_atoms(sel) = 0 \/ cutoff <= 0
        THEN ret = TrivialResult
        ELSE LET sets == <<AtomResCounts, ResAtomCounts, ResResCounts,
                           AtomResPairs, ResAtomPairs, ResResPairs,
                           ResidueCounts>>
                 hint == IF expected_max_contacts <= 0 THEN DefaultMaxContacts
                         ELSE expected_max_contacts
             IN /\ Len(ret[1]) = Max(hint, MostContacts + 1)
                /\ \A i \in 1..11 :
                       /\ Len(ret[i]) = Len(ret[1])
                       /\ \A n \in 0..(Len(ret[1]) - 1) :
                              ret[i][n + 1] = FrameCount(sets, i, n)

C18_Witness ==
    /\ Returned
    /\ expected_max_contacts = 1
    /\ Len(near) = 1
    /\ Cardinality(near[1]) = 3
    /\ n_residues(sel) = 2
    /\ ret[1] = <<0, 0, 0, 1>>
    /\ ret[2] = <<0, 0, 1, 0>>
    /\ Bin(ret[9], 1) = 1
    /\ Bin(ret[9], 2) = 1

\* a call of contact_hist raises only with a capacity hint of one
RaisesOnlyWithHintOne ==
    (caller = "direct" /\ pc = "raise") => expected_max_contacts = 1

\* C18: the outcome of contact_hist on a frame does not depend on a positive
\* expected_max_contacts: the call returns for every positive value, with
\* histograms whose bins are determined by the frame alone.
C18_SameOutcome ==
    (caller = "direct" /\ pc \in {"ret", "raise"}
        /\ expected_max_contacts > 0) =>
        /\ Returned
        /\ C18_CapacityHint

\* one of the invariants 1 to 4 does not hold of the eleven histograms
InvariantViolated ==
    \/ Sum(refatm_selatm) # Len(ref)
    \/ Sum(refatm_diff_selres) # Len(ref)
    \/ Sum(refres_diff_selatm) # Cardinality(RefResidues)
    \/ Sum(refres_selatm_tot) # Cardinality(RefResidues)
    \/ Sum(refres_diff_selres) # Cardinality(RefResidues)
    \/ refatm_diff_selres[1] # refatm_selatm[1]
    \/ refatm_same_selres[1] # refatm_selatm[1]
    \/ \E h \in {refres_same_selatm, refres_selatm_tot, refres_diff_selres,
                 refres_same_selres} : h[1] # refres_diff_selatm[1]
    \/ refatm_selres_pair[1] # 0
    \/ refres_selatm_pair[1] # 0
    \/ refres_selres_pair[1] # 0

\* C19: the debug checks, applied to eleven histograms of which a sum
\* (refatm_selatm, refatm_diff_selres against the number of reference atoms;
\* refres_diff_selatm, refres_selatm_tot, refres_diff_selres against the
\* number of reference residues), an agreement of the first elements or a
\* zero first element of a pair histogram is violated, raise a ValueError
\* and nothing is returned.
C19_DebugRaises ==
    (caller = "check" /\ pc # "debug" /\ InvariantViolated) =>
        /\ pc = "raise"
        /\ error # <<>>
        /\ error[1] = "ValueError"
        /\ ret = <<>>

C19_Witness ==
    /\ caller = "check"
    /\ pc = "raise"
    /\ error = <<"ValueError", 688>>
    /\ n_atoms(ref) = 2
    /\ n_residues(ref) = 1
    /\ n_residues(sel) = 1
    /\ n_atoms(sel) = 2
    /\ refres_selatm_pair[1] = 1
    /\ refatm_selatm[1] = 1
    /\ refres_selatm_tot[1] = 0

\* the frame of the example: two reference atoms in residues of their own,
\* three selection atoms of which two share a residue, the first reference
\* atom in contact with these two, the second in contact with none
ExampleFrame ==
    /\ caller = "direct"
    /\ cutoff > 0
    /\ n_atoms(ref) = 2
    /\ n_residues(ref) = 2
    /\ n_atoms(sel) = 3
    /\ n_residues(sel) = 2
    /\ Len(near) = 2
    /\ Cardinality(near[1]) = 2
    /\ \A a, b \in near[1] : sel[a] = sel[b]
    /\ near[2] = {}

\* C20: on the frame of the example contact_hist returns refatm_selatm with
\* bin 0 = 1 and bin 2 = 1, refatm_diff_selres with the first three bins
\* 1, 1, 0, and refatm_selres_pair with bin 2 = 1 and every other bin 0.
C20_Example ==
    (ExampleFrame /\ pc \in {"ret", "raise"}) =>
        /\ Returned
        /\ Bin(ret[1], 0) = 1
        /\ Bin(ret[1], 2) = 1
        /\ Len(ret[2]) >= 3
        /\ SubSeq(ret[2], 1, 3) = <<1, 1, 0>>
        /\ Bin(ret[9], 2) = 1
        /\ \A n \in 0..(Len(ret[9]) - 1) : n # 2 => Bin(ret[9], n) = 0

C20_Witness ==
    /\ ExampleFrame
    /\ Returned
    /\ debug
    /\ expected_max_contacts = 1
    /\ ret[1] = <<1, 0, 1>>
    /\ ret[2] = <<1, 1, 0>>
    /\ ret[9] = <<0, 0, 1>>

\* the histograms whose bins count contacts: refatm_selatm,
\* refres_selatm_tot and the three pair histograms
ContactHists == {1, 6, 9, 10, 11}

FreshCall ==
    (caller = "script" /\ pc = "atoms" /\ near = <<>>) =>
        /\ \A h \in {refatm_selatm, refatm_diff_selres, refatm_same_selres,
                     refatm_selres_pair} :
               h = Zeros(expected_max_contacts)
        /\ \A h \in {refres_diff_selatm, refres_selatm_tot,
                     refres_diff_selres} : h = Zeros(n_residues(ref))
        /\ refres_selatm_pair =
               [r \in 1..n_residues(ref) |-> Zeros(n_atoms(sel))]
        /\ refres_selres_pair =
               [r \in 1..n_residues(ref) |-> Zeros(n_residues(sel))]
        /\ selatm_unused =
               [r \in 1..n_residues(ref) |-> [c \in 1..n_atoms(sel) |-> TRUE]]
        /\ selres_unused =
               [r \in 1..n_residues(ref) |->
                   [c \in 1..n_residues(sel) |-> TRUE]]

\* the histograms returned to the script are those of the frame alone
FrameAlone ==
    (caller = "script" /\ Returned) =>
        LET sets == <<AtomResCounts, ResAtomCounts, ResResCounts,
                      AtomResPairs, ResAtomPairs, ResResPairs,
                      ResidueCounts>>
        IN \A i \in 1..11 : \A n \in 0..(Len(ret[i]) - 1) :
               ret[i][n + 1] =
                   IF n_atoms(sel) = 0
                   THEN (IF n > 0 \/ i > 8 THEN 0
                         ELSE IF i <= 3 THEN n_atoms(ref)
                         ELSE n_residues(ref))
                   ELSE FrameCount(sets, i, n)

\* merging a frame leaves the arguments, the frame counter and the totals
\* of the groups as they are
MergeOnlyAccumulates ==
    (caller = "script" /\ pc = "ret") =>
        /\ pc' = "loop"
        /\ UNCHANGED <<acf, args, flags, frame, totals, error, warnings>>

\* C22: the state of a frame is reset with every frame: every call of
\* contact_hist by the trajectory loop starts from zeroed matrices and masks
\* that are all true, the histograms it returns are those of the groups and
\* neighbour sets of the frame whatever frames came before, and merging the
\* frame changes the accumulators and running totals only.
C22_FrameReset ==
    /\ [](FreshCall /\ FrameAlone)
    /\ [][MergeOnlyAccumulates]_vars

C22_Witness ==
    /\ caller = "script"
    /\ Returned
    /\ frame = 2
    /\ UPDATING_REF /\ UPDATING_SEL
    /\ first_moment(hist_atm[1]) = BigSelAtoms
    /\ n_atoms(ref) = 2
    /\ n_atoms(sel) = BigSelAtoms
    /\ TotalContacts = 1
    /\ Bin(ret[1], 0) = 1
    /\ Bin(ret[1], 1) = 1
    /\ Bin(ret[1], BigSelAtoms) = 0

\* the identities between the pairs, the distinct partners and the contacts
\* for a tuple of eleven histograms
PairIdentities(h) ==
    /\ Sum(h[9]) = first_moment(h[2])
    /\ Sum(h[10]) = first_moment(h[4])
    /\ Sum(h[11]) = first_moment(h[7])
    /\ first_moment(h[9]) = first_moment(h[1])
    /\ first_moment(h[10]) = first_moment(h[11])
    /\ first_moment(h[11]) = first_moment(h[6])

\* C25: for every frame and for the trajectory totals the number of
\* connected pairs is the first moment of the matching distinct-partner
\* histogram (refatm_selres_pair / refatm_diff_selres, refres_selatm_pair /
\* refres_diff_selatm, refres_selres_pair / refres_diff_selres), and the
\* bonds of all pairs add up to the contacts (first moments of
\* refatm_selres_pair and refatm_selatm; of refres_selatm_pair,
\* refres_selres_pair and refres_selatm_tot); n_pairs is the sum of the
\* accumulated pair histograms.
C25_PairMoments ==
    /\ Returned => PairIdentities(ret)
    /\ caller = "script" =>
           /\ PairIdentities(hist_atm \o hist_res \o hist_par)
           /\ \A i \in 1..3 : n_pairs[i] = Sum(hist_par[i])

C25_Witness ==
    /\ caller = "script"
    /\ pc = "check"
    /\ N_FRAMES = 2
    /\ UPDATING_REF
    /\ n_pairs = <<3, BigSelAtoms + 1, 2>>
    /\ first_moment(hist_atm[1]) = BigSelAtoms + 2
    /\ first_moment(hist_par[2]) = BigSelAtoms + 2
    /\ first_moment(hist_atm[2]) = 3

\* the check has been made: the script is done or has raised
Checked == caller = "script" /\ pc \in {"done", "raise"}

\* a bin of row i (0-based) of the normalised hist_res is greater than one
ResBinAboveOne(i) ==
    \E n \in DOMAIN hist_res[i + 1] : hist_res[i + 1][n] > n_refres

\* a bin of the normalised refatm_same_selres above one makes the final
\* check raise
AtmSameRaises ==
    (Checked /\ \E n \in DOMAIN hist_atm[3] : hist_atm[3][n] > n_refatm) =>
        pc = "raise" /\ error # <<>> /\ error[1] = "ValueError"

\* C26: whenever a bin of the normalised refres_same_selatm or
\* refres_same_selres (hist_res rows 1 and 4) is greater than one, the final
\* check raises ValueError.
C26_ResSameRaises ==
    (Checked /\ (ResBinAboveOne(1) \/ ResBinAboveOne(4))) =>
        pc = "raise" /\ error # <<>> /\ error[1] = "ValueError"

\* C27: contact_hist with debug=True and a positive expected_max_contacts
\* raises nothing and returns the histograms of the frame, those that
\* debug=False returns.
C27_DebugTransparent ==
    (caller = "direct" /\ debug /\ expected_max_contacts > 0
        /\ pc \in {"ret", "raise"}) =>
        /\ Returned
        /\ error = <<>>
        /\ C18_CapacityHint

\* with debug=True a call that returns returns what debug=False returns, and
\* a call raises only on a frame without contact, with a capacity hint of
\* one and a group of residues of one atom each
DebugRaisesOnlyWhen ==
    /\ C18_CapacityHint
    /\ (caller = "direct" /\ pc = "raise") =>
           /\ debug
           /\ expected_max_contacts = 1
           /\ TotalContacts = 0
           /\ all_singletons(ref) \/ all_singletons(sel)
           /\ error \in {<<"ValueError", 724>>, <<"ValueError", 777>>}

\* ------------------------------------------- properties of autocorr_dtraj
\* The properties compare the returned array with counts taken directly
\* from the trajectory the function was called with.

\* autocorr_dtraj has returned / has been left by return or exception
AutocorrReturned == caller = "autocorr" /\ pc = "ret"
AutocorrLeft == caller = "autocorr" /\ pc \in {"ret", "raise"}

\* the lags of the trajectory but lag 0
Lags == 1..(Len(dtraj) - 1)

\* the state of compound c at frame t
StateAt(c, t) == dtraj[t + 1][c]

\* the restarting points: range(0, n_frames-1, restart)
RestartPoints == {t0 \in 0..(Len(dtraj) - 2) : t0 % restart = 0}

\* the pairs <<compound, restarting point>> with the frame a lag later
\* inside the trajectory
StartPairs(lag) ==
    {p \in (1..Len(dtraj[1])) \X RestartPoints : p[2] + lag < Len(dtraj)}

\* the pairs of a set that are in the same state a lag later
Unchanged(pairs, lag) ==
    {p \in pairs : StateAt(p[1], p[2]) = StateAt(p[1], p[2] + lag)}

\* element lag of the returned array is the fraction of the pairs that are
\* in the same state a lag later, and, with cut or cut_and_merge, element
\* lag of norm is the number of the pairs
FractionOf(pairs, lag) ==
    /\ autocorr[lag + 1] =
           <<Cardinality(Unchanged(pairs, lag)), Cardinality(pairs)>>
    /\ (cut \/ cut_and_merge) => norm[lag + 1] = Cardinality(pairs)

\* C23: autocorr_dtraj with cut=True discards the restarting points and the
\* end points with a negative state: a compound and a restarting point t0
\* contribute to autocorr[lag] and to norm[lag] if and only if the state of
\* the compound is non-negative at t0 and at t0 + lag.
C23_CutDiscards ==
    (AutocorrLeft /\ cut /\ ~cut_and_merge) =>
        /\ pc = "ret"
        /\ \A lag \in Lags :
               FractionOf({p \in StartPairs(lag) :
                              /\ StateAt(p[1], p[2]) >= 0
                              /\ StateAt(p[1], p[2] + lag) >= 0}, lag)

\* what the branch 'if cut:' does count: the pairs whose state is
\* non-negative at t0 and at t0 + lag or negative at both, up to the first
\* lag of the restarting point without such a compound
CutCounted(lag) ==
    {p \in StartPairs(lag) :
        \A l \in 1..lag :
            \E c \in 1..Len(prefilter(dtraj)[1]) :
                (prefilter(dtraj)[p[2] + 1][c] >= 0)
                    <=> (prefilter(dtraj)[p[2] + l + 1][c] >= 0)}

CutCounts ==
    (AutocorrLeft /\ cut /\ ~cut_and_merge) =>
        /\ pc = "ret"
        /\ \A lag \in Lags :
               FractionOf({p \in CutCounted(lag) :
                              /\ p[1] \in ever_valid(dtraj)
                                 \/ prefilter(dtraj) = dtraj
                              /\ (StateAt(p[1], p[2]) >= 0)
                                     <=> (StateAt(p[1], p[2] + lag) >= 0)},
                          lag)

\* C24: autocorr_dtraj with cut_and_merge=True discards exactly the
\* restarting points with a negative state: for every lag >= 1, norm[lag] is
\* the number of pairs of a compound and a restarting point t0 with t0 + lag
\* inside the trajectory and a non-negative state at t0, and autocorr[lag]
\* is the fraction of these pairs whose state at t0 + lag is the state at
\* t0, so that a transition into a negative state lowers it.
C24_MergeDiscards ==
    (AutocorrLeft /\ cut_and_merge /\ ~cut) =>
        /\ pc = "ret"
        /\ \A lag \in Lags :
               FractionOf({p \in StartPairs(lag) :
                              StateAt(p[1], p[2]) >= 0}, lag)

C24_Witness ==
    /\ AutocorrReturned
    /\ cut_and_merge
    /\ restart = 1
    /\ dtraj = << <<0, 0>>, <<-1, 0>>, <<0, -1>> >>
    /\ norm = <<1, 3, 2>>
    /\ autocorr = <<One, <<1, 3>>, <<1, 2>> >>

\* C28: autocorr_dtraj without cut and cut_and_merge normalises exactly:
\* for every lag >= 1 the divisor ceil((n_frames - lag) / restart) *
\* n_compounds is the number of pairs of a restarting point t0 with
\* t0 + lag < n_frames and a compound, and autocorr[lag] is the fraction of
\* these pairs found in the state of t0 after the lag.
C28_PlainNorm ==
    (AutocorrLeft /\ ~cut /\ ~cut_and_merge) =>
        /\ pc = "ret"
        /\ \A lag \in Lags :
               /\ FractionOf(StartPairs(lag), lag)
               /\ n_restarts(Len(dtraj), restart, lag) * Len(dtraj[1]) =
                      Cardinality(StartPairs(lag))

C28_Witness ==
    /\ AutocorrReturned
    /\ ~cut /\ ~cut_and_merge
    /\ restart = 2
    /\ dtraj = << <<0, 0>>, <<0, 1>>, <<0, 0>> >>
    /\ autocorr = <<One, <<1, 2>>, <<2, 2>> >>

\* x is a number in [0, 1]
Probability(x) == x[2] > 0 /\ 0 <= x[1] /\ x[1] <= x[2]

\* C29: for every mode (plain, cut, cut_and_merge) autocorr_dtraj returns an
\* array of n_frames values, the first of which is 1 and each of which is a
\* defined number in [0, 1]; no exception is raised.
C29_Defined ==
    (AutocorrLeft /\ ~(cut /\ cut_and_merge)) =>
        /\ pc = "ret"
        /\ Len(autocorr) = Len(dtraj)
        /\ autocorr[1] = One
        /\ \A l \in DOMAIN autocorr : Probability(autocorr[l])

\* what does hold: no exception but that for cut and cut_and_merge both
\* given; an array of n_frames elements, the first of which is 1; an element
\* is a number in [0, 1] or, if no pair was counted for its lag, nan; and
\* without cut and cut_and_merge every element is a number in [0, 1]
DefinedOrNan ==
    AutocorrLeft =>
        IF cut /\ cut_and_merge
        THEN pc = "raise" /\ error = <<"ValueError", 214>>
        ELSE /\ pc = "ret"
             /\ Len(autocorr) = Len(dtraj)
             /\ autocorr[1] = One
             /\ \A l \in DOMAIN autocorr :
                    \/ Probability(autocorr[l])
                    \/ /\ cut \/ cut_and_merge
                       /\ is_nan(autocorr[l])
                       /\ norm[l] = 0

\* the result for the trajectory as it is and for the trajectory without
\* the compounds that are never in a non-negative state
Unfiltered == autocorr_filtered(dtraj, restart, cut, cut_and_merge)
Filtered ==
    autocorr_filtered(take_columns(dtraj, ever_valid(dtraj)), restart, cut,
                      cut_and_merge)

\* C30: with cut as well as with cut_and_merge the returned array is the
\* same whether the compounds that are never in a non-negative state are
\* dropped or not.
C30_FilterNeutral ==
    (AutocorrReturned /\ (cut \/ cut_and_merge)) =>
        /\ autocorr = Unfiltered.autocorr
        /\ autocorr = Filtered.autocorr

\* with cut_and_merge it is
FilterNeutralMerge ==
    (AutocorrReturned /\ cut_and_merge) =>
        /\ autocorr = Unfiltered.autocorr
        /\ autocorr = Filtered.autocorr

====
